---------------------------- MODULE Spec2Model ----------------------------
(***************************************************************************)
(* A model of the PCO framework (hillelav/pcoq): the dashboard controller  *)
(* (pco_framework/dashboard.py), the audit tool (pco_framework/audit.py),  *)
(* the benchmark pipelines (pco_framework/benchmark_static_logic.py,       *)
(* pco_framework/benchmark_stemporal_logic.py) and the stand-alone         *)
(* verifier wrapper (coq_code/traffic/run_proof.py).                       *)
(*                                                                         *)
(* Text is modelled as a sequence of tokens (strings); a file on disk is a *)
(* sequence of byte tokens.  SHA-256 is modelled as injective: the digest  *)
(* of a string is the string itself.                                       *)
(*                                                                         *)
(* Specifications:                                                         *)
(*   Spec        the dashboard controller, its ledger, the artifact files  *)
(*               and the two audit tools (handlers are atomic: the GUI     *)
(*               runs one handler at a time);                              *)
(*   RunSpec     one pipeline run, stage by stage, for each of the         *)
(*               pipelines of the repository;                              *)
(*   FairRunSpec RunSpec with weak fairness of its steps.                  *)
(***************************************************************************)
EXTENDS Naturals, Sequences, FiniteSets, TLC

VARIABLES
    \* ---- PCODashboard fields (dashboard.py:130-141)
    blockchain,            \* self.blockchain: the in-memory ledger
    current_proof_file,    \* self.current_proof_file
    current_proposition,   \* self.current_proposition
    verification_passed,   \* self.verification_passed
    loaded_document,       \* self.loaded_document / self.document_hash
    \* ---- the file system and the clock
    blockchain_file,       \* pco_storage/blockchain.json
    disk,                  \* the artifact files under pco_storage/
    now,                   \* the wall clock, in seconds
    \* ---- observations
    last_run,              \* the most recent run of a dashboard handler
    commit_log,            \* per record: what record_to_blockchain saw
    audit_out,             \* what the audit that has just run reported
    tampers,               \* the number of changes made to stored files
    \* ---- one pipeline run, stage by stage
    run_kind,              \* the handler that is running
    pc,                    \* the stage the run is in
    api_key,               \* the credential the run was given
    provider,              \* the provider the run was given
    llm_entered,           \* the number of times call_llm was entered
    model_idx,             \* call_llm: the position of the candidate loop
    calls,                 \* the models asked of the provider, in order
    attempted_models,      \* call_llm: attempted_models
    last_error,            \* call_llm: the text of last_error
    auth_failed_at,        \* the first attempt that failed to authenticate
    llm_status,            \* how generation stands or what it ended in
    requested_model,       \* run_single_test, call_llm: the parameter model
    llm_response,          \* call_llm: the response that was accepted
    token_info,            \* call_llm: token_info
    llm_raised,            \* call_llm: the text of the exception it raised
    files_written,         \* the number of artifact files the run wrote
    verifier_calls,        \* the number of verifier invocations of the run
    child,                 \* the verifier's child process
    elapsed,               \* seconds since the child was spawned
    outcome,               \* what subprocess.run came to
    stderr_text,           \* verify_result.stderr
    result,                \* the result of the run
    test_result,           \* run_single_test: the dictionary result
    \* ---- the sanitizer applied to a response of the provider
    raw_text,              \* call_llm: full_response
    coq_text,              \* call_llm: coq_code, as it is returned
    prev_text,             \* the code before the latest pass
    name_text,             \* call_llm: proposition
    passes,                \* the number of times the sanitizer was applied
    \* ---- dashboards that share one ledger file, and audit.py
    controllers,           \* the fields of each PCODashboard object
    ledger_file,           \* pco_storage/blockchain.json, shared
    storage,               \* the artifact files of pco_storage, shared
    commits,               \* the records that were committed, in order
    report,                \* what the latest run of audit.py printed
    prev_report,           \* what the run of audit.py before it printed
    damages                \* the number of changes made from outside

dashVars == <<blockchain, current_proof_file, current_proposition,
              verification_passed, loaded_document, blockchain_file, disk,
              now, last_run, commit_log, audit_out, tampers>>

llmVars == <<llm_entered, model_idx, calls, attempted_models, last_error,
             auth_failed_at, llm_status, requested_model, llm_response,
             token_info, llm_raised>>
verifierVars == <<verifier_calls, child, elapsed, outcome, stderr_text>>
runVars == <<run_kind, pc, api_key, provider, llmVars, files_written,
             verifierVars, result, test_result>>
sanVars == <<raw_text, coq_text, prev_text, name_text, passes>>
ledVars == <<controllers, ledger_file, storage, commits, report, prev_report,
             damages>>

\* what a handler of the dashboard, a stage of a run and a pass of the
\* sanitizer leave alone
offDash == <<runVars, sanVars, ledVars>>
offRun == <<dashVars, sanVars, ledVars>>
offSan == <<dashVars, runVars, ledVars>>
offLed == <<dashVars, runVars, sanVars>>

----------------------------------------------------------------------------
(* Bounds of the model *)

MaxClock == 1        \* the clock runs over 0..MaxClock
MaxRecords == 2      \* at most this many records are committed
MaxTampers == 1      \* at most this many changes are made to stored files
MaxLines == 3        \* a response of the provider has at most this many lines
MaxPasses == 2       \* the sanitizer is applied at most this many times
MaxRuns == 1         \* at most this many verifications in each dashboard
MaxCommits == 2      \* at most this many invocations of record_to_blockchain
MaxDamages == 2      \* at most this many changes from outside to shared files

----------------------------------------------------------------------------
(* Text *)

LF == "<LF>"
CR == "<CR>"
SEP == "|||"

IsSpace(tok) == tok \in {" ", LF, CR}

\* the tokens a regular expression's \w matches
WordTokens == {"Theorem", "Definition", "Lemma", "Example", "A", "B", "x",
               "proof", "None", "Foo", "Here", "Importantly", "Module",
               "Tax", "v", "Require", "Import", "From", "Coq", "Stdlib",
               "Lists", "List", "Arith", "File", "coq", "python", "Open",
               "Inductive", "Fixpoint", "CoInductive", "Record", "Structure",
               "Section", "Variable", "Axiom", "Parameter", "Hypothesis",
               "unknown_proposition"}

IsWord(tok) == tok \in WordTokens

\* open(path, 'r').read(): universal newlines, CR LF and CR become LF
RECURSIVE ReadText(_)
ReadText(bytes) ==
    IF bytes = <<>> THEN <<>>
    ELSE IF Head(bytes) = CR
         THEN IF Len(bytes) >= 2 /\ bytes[2] = LF
              THEN <<LF>> \o ReadText(SubSeq(bytes, 3, Len(bytes)))
              ELSE <<LF>> \o ReadText(Tail(bytes))
         ELSE <<Head(bytes)>> \o ReadText(Tail(bytes))

\* open(path, 'w').write(text) on a POSIX host: LF is written as os.linesep,
\* which is LF; every other character is written as it is
RECURSIVE WriteText(_)
WriteText(text) ==
    IF text = <<>> THEN <<>>
    ELSE (IF Head(text) = LF THEN <<LF>> ELSE <<Head(text)>>)
         \o WriteText(Tail(text))

\* the first position from i on that holds no white space
RECURSIVE SkipSpace(_, _)
SkipSpace(text, i) ==
    IF i <= Len(text) /\ IsSpace(text[i]) THEN SkipSpace(text, i + 1) ELSE i

\* the longest run of word tokens that starts at i: the group (\w+)
RECURSIVE WordRun(_, _)
WordRun(text, i) ==
    IF i <= Len(text) /\ IsWord(text[i])
    THEN <<text[i]>> \o WordRun(text, i + 1)
    ELSE <<>>

\* whether keyword \s+ \w+ matches at position i
MatchesAt(text, i, keywords) ==
    /\ text[i] \in keywords
    /\ i + 1 <= Len(text)
    /\ IsSpace(text[i + 1])
    /\ WordRun(text, SkipSpace(text, i + 1)) # <<>>

\* re.search(r'(K1|K2|...)\s+(\w+)', text): group 2 of the leftmost match,
\* or <<>> when there is none
SearchDeclaration(text, keywords) ==
    LET hits == {i \in 1..Len(text) : MatchesAt(text, i, keywords)}
    IN  IF hits = {} THEN <<>>
        ELSE LET i == CHOOSE k \in hits : \A m \in hits : k <= m
             IN  WordRun(text, SkipSpace(text, i + 1))

LoadedKeywords == {"Theorem", "Definition", "Lemma", "Example"}

\* load_existing_proof: the proposition is the first declaration's name, or
\* the stem of the file name
LoadedProposition(proof_content, stem) ==
    LET name == SearchDeclaration(proof_content, LoadedKeywords)
    IN  IF name # <<>> THEN name ELSE <<stem>>

\* hashlib.sha256(f"{proof_content}|||{proposition}".encode()).hexdigest()
DigestNameless(proof_content, proposition) == proof_content \o <<SEP>>
Digest(proof_content, proposition) == proof_content \o <<SEP>> \o proposition

----------------------------------------------------------------------------
(* The sanitizer: the end of call_llm and _clean_coq_code *)

\* three backquotes; the comment opener and closer of Coq; and the three
\* characters that are an opener and a closer at once
FENCE == "<fence>"
OPENER == "<open>"
CLOSER == "<close>"
OPENCLOSE == "<openclose>"

\* str.lstrip(), str.rstrip(), str.strip()
RECURSIVE LStrip(_)
LStrip(text) ==
    IF text # <<>> /\ IsSpace(Head(text)) THEN LStrip(Tail(text)) ELSE text

RECURSIVE RStrip(_)
RStrip(text) ==
    IF text # <<>> /\ IsSpace(text[Len(text)])
    THEN RStrip(SubSeq(text, 1, Len(text) - 1))
    ELSE text

Strip(text) == LStrip(RStrip(text))

\* whether pat stands in text at position i
OccursAt(text, i, pat) ==
    /\ i + Len(pat) - 1 <= Len(text)
    /\ SubSeq(text, i, i + Len(pat) - 1) = pat

\* str.find(pat) + 1: the position of the first occurrence of pat, or 0
Find(text, pat) ==
    LET hits == {i \in 1..Len(text) : OccursAt(text, i, pat)}
    IN  IF hits = {} THEN 0 ELSE CHOOSE i \in hits : \A j \in hits : i <= j

\* pat in text
In(pat, text) == Find(text, pat) # 0

\* text.split(pat)[0]
SplitHead(text, pat) ==
    IF In(pat, text) THEN SubSeq(text, 1, Find(text, pat) - 1) ELSE text

\* what follows the first occurrence of pat (pat is in text)
SplitRest(text, pat) ==
    SubSeq(text, Find(text, pat) + Len(pat), Len(text))

\* text.split(pat)[1] (pat is in text)
SplitSecond(text, pat) == SplitHead(SplitRest(text, pat), pat)

\* call_llm: "Extract Coq code (look for code blocks)"
ExtractCode(full_response) ==
    IF In(<<FENCE, "coq">>, full_response)
    THEN Strip(SplitHead(SplitSecond(full_response, <<FENCE, "coq">>), <<FENCE>>))
    ELSE IF In(<<FENCE>>, full_response)
    THEN Strip(SplitHead(SplitSecond(full_response, <<FENCE>>), <<FENCE>>))
    ELSE full_response

\* text.split(LF) and LF.join(lines)
RECURSIVE SplitLines(_)
SplitLines(text) ==
    IF In(<<LF>>, text)
    THEN <<SplitHead(text, <<LF>>)>> \o SplitLines(SplitRest(text, <<LF>>))
    ELSE <<text>>

RECURSIVE JoinLines(_)
JoinLines(lines) ==
    IF lines = <<>> THEN <<>>
    ELSE IF Len(lines) = 1 THEN lines[1]
    ELSE lines[1] \o <<LF>> \o JoinLines(Tail(lines))

\* _clean_coq_code: coq_keywords
CoqKeywords ==
    {"Require", "Import", "Open", "Inductive", "Definition", "Fixpoint",
     "Theorem", "Lemma", "Example", "CoInductive", "Record", "Structure",
     "Module", "Section", "Variable", "Axiom", "Parameter", "Hypothesis",
     "From", OPENER}

\* tok.startswith(kw), for the tokens of the model
HasPrefix(tok, kw) ==
    \/ tok = kw
    \/ tok = "Importantly" /\ kw = "Import"
    \/ tok = OPENCLOSE /\ kw = OPENER

\* stripped and any(stripped.startswith(kw) for kw in coq_keywords)
StartsWithKeyword(stripped) ==
    /\ stripped # <<>>
    /\ \E kw \in CoqKeywords : HasPrefix(Head(stripped), kw)

\* the index of the first line that starts with a keyword; the first line
\* when there is none
StartIdx(lines) ==
    LET hits == {i \in 1..Len(lines) : StartsWithKeyword(Strip(lines[i]))}
    IN  IF hits = {} THEN 1 ELSE CHOOSE i \in hits : \A j \in hits : i <= j

\* re.match(r'^File\s+\d+:', stripped)
IsFileHeader(stripped) ==
    /\ Len(stripped) >= 3
    /\ stripped[1] = "File"
    /\ IsSpace(stripped[2])
    /\ SkipSpace(stripped, 2) <= Len(stripped)
    /\ stripped[SkipSpace(stripped, 2)] = "1:"

\* re.match(r'^[A-Za-z\s]+\.v\s*$', stripped)
IsSectionHeader(stripped) ==
    /\ Len(stripped) >= 3
    /\ stripped[Len(stripped)] = "v"
    /\ stripped[Len(stripped) - 1] = "."
    /\ \A i \in 1..(Len(stripped) - 2) : IsWord(stripped[i]) \/ IsSpace(stripped[i])

\* the position after  w1 \s+ w2 \s+ ... wn \s+  matched from i, or 0
RECURSIVE AfterWords(_, _, _)
AfterWords(text, i, words) ==
    IF words = <<>> THEN i
    ELSE IF /\ i + 1 <= Len(text)
            /\ text[i] = Head(words)
            /\ IsSpace(text[i + 1])
    THEN AfterWords(text, SkipSpace(text, i + 1), Tail(words))
    ELSE 0

\* group 1 of  (.+?)\.?\s*$  matched against the rest of a stripped line
LazyPath(rest) ==
    IF Len(rest) >= 2 /\ rest[Len(rest)] = "."
    THEN Strip(SubSeq(rest, 1, Len(rest) - 1))
    ELSE Strip(rest)

\* f"{indent}From Stdlib Require Import {module_path}."
StdlibImport(indent, module_path) ==
    indent \o <<"From", " ", "Stdlib", " ", "Require", " ", "Import", " ">>
           \o module_path \o <<".">>

\* line[:len(line) - len(line.lstrip())]
Indent(line) == SubSeq(line, 1, Len(line) - Len(LStrip(line)))

\* _clean_coq_code: what one line becomes ("fix deprecated syntax")
FixLine(line) ==
    LET stripped == Strip(line)
        from_coq == AfterWords(stripped, 1, <<"From", "Coq", "Require", "Import">>)
        old_require == AfterWords(stripped, 1, <<"Require", "Import">>)
    IN  IF from_coq # 0 /\ from_coq <= Len(stripped)
        THEN StdlibImport(Indent(line),
                 LazyPath(SubSeq(stripped, from_coq, Len(stripped))))
        ELSE IF /\ old_require # 0
                /\ old_require + 2 <= Len(stripped)
                /\ stripped[old_require] = "Coq"
                /\ stripped[old_require + 1] = "."
        THEN StdlibImport(Indent(line),
                 LazyPath(SubSeq(stripped, old_require + 2, Len(stripped))))
        ELSE line

\* _clean_coq_code: the loop over cleaned_lines
RECURSIVE ResultLines(_)
ResultLines(lines) ==
    IF lines = <<>> THEN <<>>
    ELSE IF \/ IsFileHeader(Strip(Head(lines)))
            \/ IsSectionHeader(Strip(Head(lines)))
    THEN ResultLines(Tail(lines))
    ELSE <<FixLine(Head(lines))>> \o ResultLines(Tail(lines))

\* _clean_coq_code
CleanCoqCode(coq_code) ==
    LET lines == SplitLines(coq_code)
        cleaned_lines == SubSeq(lines, StartIdx(lines), Len(lines))
    IN  Strip(JoinLines(ResultLines(cleaned_lines)))

\* a token that [^\s.] matches
IsPathToken(tok) == ~IsSpace(tok) /\ tok # "."

\* the last position of the longest run of path tokens from i (i - 1 when
\* there is none)
RECURSIVE RunEnd(_, _)
RunEnd(text, i) ==
    IF i <= Len(text) /\ IsPathToken(text[i]) THEN RunEnd(text, i + 1)
    ELSE i - 1

\* the last position of  [^\s.]+(?:\.[^\s.]+)*  matched greedily from i
\* (i - 1 when it does not match)
RECURSIVE PathEnd(_, _)
PathEnd(text, i) ==
    LET e == RunEnd(text, i)
    IN  IF /\ e >= i
           /\ e + 2 <= Len(text)
           /\ text[e + 1] = "."
           /\ RunEnd(text, e + 2) >= e + 2
        THEN PathEnd(text, e + 2)
        ELSE e

\* the last "." of text[lo..hi], or 0
LastDot(text, lo, hi) ==
    LET dots == {b \in lo..hi : text[b] = "."}
    IN  IF dots = {} THEN 0 ELSE CHOOSE b \in dots : \A c \in dots : c <= b

NoMatch == [ok |-> FALSE, path |-> <<>>, end |-> 0]

\* r'Require\s+Import\s+Coq\.([^\s.]+(?:\.[^\s.]+)*)\s*\.' matched at i:
\* the longest path after which \s*\. matches (the last component is given
\* back when no "." follows it)
RequireMatch(text, i) ==
    LET j == AfterWords(text, i, <<"Require", "Import">>)
    IN  IF ~(/\ j # 0
             /\ j + 2 <= Len(text)
             /\ text[j] = "Coq"
             /\ text[j + 1] = "."
             /\ PathEnd(text, j + 2) >= j + 2)
        THEN NoMatch
        ELSE LET e == PathEnd(text, j + 2)
                 d == SkipSpace(text, e + 1)
                 b == LastDot(text, j + 2, e)
             IN  IF d <= Len(text) /\ text[d] = "."
                 THEN [ok |-> TRUE, path |-> SubSeq(text, j + 2, e), end |-> d]
                 ELSE IF b # 0
                 THEN [ok |-> TRUE, path |-> SubSeq(text, j + 2, b - 1),
                       end |-> b]
                 ELSE NoMatch

\* re.sub of the pattern above by r'From Stdlib Require Import \1.', from i
RECURSIVE RewriteRequireFrom(_, _)
RewriteRequireFrom(text, i) ==
    IF i > Len(text) THEN <<>>
    ELSE IF RequireMatch(text, i).ok
    THEN StdlibImport(<<>>, RequireMatch(text, i).path)
         \o RewriteRequireFrom(text, RequireMatch(text, i).end + 1)
    ELSE <<text[i]>> \o RewriteRequireFrom(text, i + 1)

RewriteRequire(coq_code) == RewriteRequireFrom(coq_code, 1)

\* re.sub(r'From\s+Coq\s+Require\s+Import', r'From Stdlib Require Import',
\* coq_code), from i
RECURSIVE RewriteFromCoqFrom(_, _)
RewriteFromCoqFrom(text, i) ==
    LET j == AfterWords(text, i, <<"From", "Coq", "Require">>)
    IN  IF i > Len(text) THEN <<>>
        ELSE IF j # 0 /\ j <= Len(text) /\ text[j] = "Import"
        THEN <<"From", " ", "Stdlib", " ", "Require", " ", "Import">>
             \o RewriteFromCoqFrom(text, j + 1)
        ELSE <<text[i]>> \o RewriteFromCoqFrom(text, i + 1)

RewriteFromCoq(coq_code) == RewriteFromCoqFrom(coq_code, 1)

\* str.count(token): the opener-and-closer counts for both
CountOf(text, toks) == Cardinality({i \in 1..Len(text) : text[i] \in toks})

\* call_llm: "Fix unterminated comments"
RepairCommentsOnce(coq_code) ==
    LET open_comments == CountOf(coq_code, {OPENER, OPENCLOSE})
        close_comments == CountOf(coq_code, {CLOSER, OPENCLOSE})
    IN  IF open_comments > close_comments
        THEN coq_code \o <<LF, CLOSER>>
        ELSE coq_code
RepairComments(coq_code) ==
    LET open_comments == CountOf(coq_code, {OPENER, OPENCLOSE})
        close_comments == CountOf(coq_code, {CLOSER, OPENCLOSE})
    IN  IF open_comments > close_comments
        THEN coq_code \o <<LF>>
                 \o [k \in 1..(open_comments - close_comments) |-> CLOSER]
        ELSE coq_code

\* call_llm: the proposition is the name after the first Theorem,
\* Definition or Lemma, or "unknown_proposition"
CallLlmKeywords == {"Theorem", "Definition", "Lemma"}

InferProposition(coq_code) ==
    LET name == SearchDeclaration(coq_code, CallLlmKeywords)
    IN  IF name # <<>> THEN name ELSE <<"unknown_proposition">>

\* call_llm, from the fence extraction to the comment repair: the code that
\* is returned for a response of the provider
Sanitize(full_response) ==
    RepairComments(
        RewriteFromCoq(RewriteRequire(CleanCoqCode(ExtractCode(full_response)))))

----------------------------------------------------------------------------
(* Files *)

Absent == [st |-> "absent", bytes |-> <<>>]
Unreadable == [st |-> "unreadable", bytes |-> <<>>]
File(bytes) == [st |-> "file", bytes |-> bytes]

\* the proof files a user may pick in the file dialogue
SourceBytes == { <<"Theorem", " ", "A", ".", LF>>,
                 <<"Theorem", " ", "A", ".", CR, LF>>,
                 <<"x", ".", LF>> }
SourceFiles == {File(b) : b \in SourceBytes} \cup {Unreadable}
Stems == {"proof"}

\* pco_storage/loaded_<stem>_<timestamp>.v
StoredPath(stem, ts) ==
    [dir |-> "pco_storage", prefix |-> "loaded_", stem |-> stem, ts |-> ts]
NoPath == [dir |-> "", prefix |-> "", stem |-> "", ts |-> 0]
Paths == {StoredPath(s, t) : s \in Stems, t \in 0..MaxClock}

\* str(path).startswith("loaded_"): the string starts with the directory
PathStartsWith(path, prefix) == path.dir = "" /\ path.prefix = prefix

\* every LF of the file becomes CR LF (a conversion to DOS line endings)
RECURSIVE ToCrLf(_)
ToCrLf(bytes) ==
    IF bytes = <<>> THEN <<>>
    ELSE (IF Head(bytes) = LF THEN <<CR, LF>> ELSE <<Head(bytes)>>)
         \o ToCrLf(Tail(bytes))

\* what somebody outside the program may turn a stored file into
Tamperings(f) ==
    IF f.st # "file" THEN {}
    ELSE {File(b) : b \in {f.bytes \o <<"x">>, ToCrLf(f.bytes)} \ {f.bytes}}
         \cup {Absent, Unreadable}

----------------------------------------------------------------------------
(* The verifier process *)

\* what subprocess.run([verifier, path], capture_output=True, ...) ends in:
\* the child exits with a return code and may have written "Error:" to its
\* standard error; or it does not exit in time; or the executable is not
\* found; or the spawn fails otherwise
Exited(rc, marker) == [kind |-> "exited", returncode |-> rc, marker |-> marker]
VerifierOutcomes ==
    {Exited(rc, m) : rc \in {0, 1}, m \in BOOLEAN}
    \cup {[kind |-> k, returncode |-> 1, marker |-> FALSE] :
            k \in {"timeout", "not_found", "os_error"}}

\* execute_pipeline and load_existing_proof: the branch taken after
\* subprocess.run
DashboardVerdict(o) ==
    CASE o.kind = "timeout" -> "TIMEOUT"
      [] o.kind = "not_found" -> "NOT_FOUND"
      [] o.kind = "os_error" -> "ERROR"
      [] OTHER -> IF o.returncode = 0 THEN "PASS" ELSE "FAIL"


----------------------------------------------------------------------------
(* The dashboard controller: PCODashboard *)

UseCases == {"tax_compliance"}
Verifiers == {"coqc"}
ApiKeys == {"", "sk-key"}
\* load_documents: hashlib.sha256(json.dumps(document, sort_keys=True))
DocumentHash(document) == <<"sha256", document>>

\* what the user picks in load_documents: "" when the dialogue is cancelled,
\* a file that is no JSON text, the empty object, or a tax return
DocumentFiles == {"", "invalid", "{}", "tax_return"}

\* execute_pipeline: "if self.loaded_document:" is false of None and of the
\* empty object; the document that goes into the prompt
PromptDocument(document) ==
    IF document \in {"None", "{}"} THEN "None" ELSE document

\* what call_llm hands back to execute_pipeline: it raises, or it returns
\* the tuple (coq_code, proposition, token_info)
GeneratedCode == { <<"Theorem", " ", "B", ".">> }
NoLlmResult == [raised |-> TRUE, coq_code |-> <<>>, proposition |-> <<>>]
LlmResults == {NoLlmResult}
              \cup {[raised |-> FALSE, coq_code |-> c, proposition |-> <<"B">>] :
                      c \in GeneratedCode}

\* the number of values call_llm returns, and the number of names
\* execute_pipeline unpacks them into
CallLlmReturns == 3
ExecutePipelineUnpacks == 2

\* a, b = f(): a ValueError unless f returns exactly as many values
Unpacks(targets, values) == targets = values

\* pco_storage/<use_case>_<timestamp>.v
GeneratedPath(use_case, ts) ==
    [dir |-> "pco_storage", prefix |-> "", stem |-> use_case, ts |-> ts]

AllPaths == Paths \cup {GeneratedPath(u, t) : u \in UseCases, t \in 0..MaxClock}

NoOutcome == [kind |-> "none", returncode |-> 1, marker |-> FALSE]

\* what a run of a handler came to: the file and proposition it set, the
\* branch it ended in and what the verifier process did (if it was run);
\* checked is the content of the file when the verifier was run on it
Run(op, path, proposition, verdict, o) ==
    [op |-> op, path |-> path, proposition |-> proposition,
     verdict |-> verdict, outcome |-> o, checked |-> <<>>,
     document |-> "None"]
\* the run wrote these bytes to its file and gave the file to the verifier
Checking(r, bytes) == [r EXCEPT !.checked = bytes]
\* the run put this document into the prompt it sent to the provider
Prompted(r, document) == [r EXCEPT !.document = PromptDocument(document)]
NoRun == Run("none", NoPath, <<>>, "NONE", NoOutcome)
NoAudit == [tool |-> "none", first |-> 0, verdicts |-> <<>>,
            pass_count |-> 0, fail_count |-> 0, seen |-> <<>>]

\* damage: "none" when the file holds the list that was saved; "garbage"
\* when it holds no JSON text (a truncated or overwritten file); "locked"
\* when it cannot be opened; "falsy" when it holds a JSON value that is not a
\* list and that Python takes for false (null, {}, "", 0, false)
NoLedgerFile == [exists |-> FALSE, records |-> <<>>, damage |-> "none"]

\* load_blockchain (dashboard.py and audit.py): the records of the file, or
\* no records when there is no file
LoadBlockchain(file) ==
    IF file.exists /\ file.damage = "none" THEN file.records ELSE <<>>

\* load_blockchain: open raises on a file that cannot be opened and
\* json.load raises on a file that holds no JSON text
LoadRaises(file) == file.exists /\ file.damage \in {"garbage", "locked"}

\* load_blockchain: json.load returned a list
LoadsList(file) == ~(file.exists /\ file.damage = "falsy")

\* save_blockchain: the whole list is written
SaveLatest(records) ==
    [exists |-> TRUE, records |-> SubSeq(records, Len(records), Len(records)),
     damage |-> "none"]
SaveBlockchain(records) ==
    [exists |-> TRUE, records |-> records, damage |-> "none"]

\* no run has started
NoError == <<>>
NoChild == [st |-> "none", hangs |-> FALSE]
Result(status, passed, error) ==
    [status |-> status, passed |-> passed, error |-> error]
NoResult == Result("none", FALSE, "none")

\* the usage counters of a response of a provider; a response may carry none
NoUsage == [present |-> FALSE, input |-> 0, output |-> 0, total |-> 0]
\* a response: the model that gave it, its usage counters, why the model
\* stopped and the number of characters of its text
Response(model, usage, finish, chars) ==
    [model |-> model, usage |-> usage, finish |-> finish, chars |-> chars]
NoResponse == Response("", NoUsage, "none", 0)

\* call_llm: token_info = {"input_tokens": 0, "output_tokens": 0,
\* "total_tokens": 0}
ZeroTokens == [input_tokens |-> 0, output_tokens |-> 0, total_tokens |-> 0]

\* run_single_test: result = {..., "model": model, "success": False, ...,
\* "input_tokens": 0, "output_tokens": 0, "total_tokens": 0, "error": None};
\* error_is_none tells None from a text
NewTestResult(model) ==
    [model |-> model, success |-> FALSE, input_tokens |-> 0,
     output_tokens |-> 0, total_tokens |-> 0, error_is_none |-> TRUE,
     error |-> <<>>]
NoTestResult == NewTestResult("")

RunIdle ==
    /\ run_kind = "none"
    /\ pc = "idle"
    /\ api_key = ""
    /\ provider = "none"
    /\ llm_entered = 0
    /\ model_idx = 0
    /\ calls = <<>>
    /\ attempted_models = <<>>
    /\ last_error = NoError
    /\ auth_failed_at = 0
    /\ llm_status = "idle"
    /\ requested_model = ""
    /\ llm_response = NoResponse
    /\ token_info = ZeroTokens
    /\ llm_raised = <<>>
    /\ files_written = 0
    /\ verifier_calls = 0
    /\ child = NoChild
    /\ elapsed = 0
    /\ outcome = NoOutcome
    /\ stderr_text = <<>>
    /\ result = NoResult
    /\ test_result = NoTestResult

\* no response has been sanitized
SanIdle ==
    /\ raw_text = <<>>
    /\ coq_text = <<>>
    /\ prev_text = <<>>
    /\ name_text = <<>>
    /\ passes = 0

\* the dashboards that share a ledger file
Controllers == {"c1", "c2"}

\* a PCODashboard object that was not constructed yet; dialog is the latest
\* message box it showed and runs the number of verifications it made
NoController ==
    [opened |-> FALSE, blockchain |-> <<>>, is_list |-> TRUE,
     current_proof_file |-> NoPath, current_proposition |-> <<"None">>,
     verification_passed |-> FALSE, runs |-> 0, dialog |-> "none"]

SharedStems == {"proof", "other"}
SharedPaths == {StoredPath(stem, 0) : stem \in SharedStems}
SharedSources == {File(<<"x", ".", LF>>), File(<<"x", ".", " ", "x", ".", LF>>)}

\* opened is the ledger file as audit.py found it
NoReport == [tool |-> "none", opened |-> NoLedgerFile,
             raised |-> FALSE, no_records |-> FALSE,
             records |-> <<>>, seen |-> <<>>, verdicts |-> <<>>,
             pass_count |-> 0, fail_count |-> 0, all_authentic |-> FALSE]

\* nothing was constructed, stored, committed or audited
LedIdle ==
    /\ controllers = [c \in Controllers |-> NoController]
    /\ ledger_file = NoLedgerFile
    /\ storage = [p \in SharedPaths |-> Absent]
    /\ commits = <<>>
    /\ report = NoReport
    /\ prev_report = NoReport
    /\ damages = 0

Init ==
    /\ RunIdle
    /\ SanIdle
    /\ LedIdle
    /\ blockchain_file = NoLedgerFile
    /\ blockchain = LoadBlockchain(blockchain_file)
    /\ current_proof_file = NoPath
    /\ current_proposition = <<"None">>
    /\ verification_passed = FALSE
    /\ loaded_document = "None"
    /\ disk = [p \in AllPaths |-> Absent]
    /\ now = 0
    /\ last_run = NoRun
    /\ commit_log = <<>>
    /\ audit_out = NoAudit
    /\ tampers = 0

\* the first statements of execute_pipeline and of load_existing_proof:
\* self.verification_passed = False
ResetVerificationPassed(flag) == FALSE

\* load_existing_proof: the user picks a file (stem "" when the dialogue is
\* cancelled); the file is read, copied into pco_storage and verified
LoadExistingProof(stem, src, o) ==
    /\ UNCHANGED offDash
    /\ audit_out' = NoAudit
    /\ UNCHANGED <<blockchain, blockchain_file, loaded_document, now,
                   commit_log, tampers>>
    /\ IF stem = ""
       THEN UNCHANGED <<current_proof_file, current_proposition,
                        verification_passed, disk, last_run>>
       ELSE IF src.st # "file"
       THEN \* open(file_path, 'r') raises
            /\ verification_passed' = ResetVerificationPassed(verification_passed)
            /\ last_run' = Run("load_existing_proof", NoPath, <<>>,
                                 "READ_ERROR", NoOutcome)
            /\ UNCHANGED <<current_proof_file, current_proposition, disk>>
       ELSE LET proof_content == ReadText(src.bytes)
                proposition == LoadedProposition(proof_content, stem)
                stored_path == StoredPath(stem, now)
            IN  /\ current_proposition' = proposition
                /\ IF disk[stored_path].st = "unreadable"
                   THEN \* open(stored_path, 'w') raises
                        /\ verification_passed' =
                               ResetVerificationPassed(verification_passed)
                        /\ last_run' = Run("load_existing_proof", NoPath, proposition,
                                 "WRITE_ERROR", NoOutcome)
                        /\ UNCHANGED <<current_proof_file, disk>>
                   ELSE /\ disk' = [disk EXCEPT ![stored_path] =
                                        File(WriteText(proof_content))]
                        /\ current_proof_file' = stored_path
                        /\ verification_passed' =
                               IF DashboardVerdict(o) = "PASS" THEN TRUE
                               ELSE ResetVerificationPassed(verification_passed)
                        /\ last_run' = Checking(
                               Run("load_existing_proof", stored_path,
                                   proposition, DashboardVerdict(o), o),
                               WriteText(proof_content))

\* load_documents: the user picks a JSON file; the document and its hash
\* are kept when json.load returns
LoadDocuments(document) ==
    /\ UNCHANGED offDash
    /\ audit_out' = NoAudit
    /\ loaded_document' = IF document \in {"", "invalid"} THEN loaded_document
                          ELSE document
    /\ UNCHANGED <<blockchain, current_proof_file, current_proposition,
                   verification_passed, blockchain_file, disk, now, last_run,
                   commit_log, tampers>>

\* execute_pipeline: generate with call_llm, save the code, verify it
ExecutePipeline(use_case, key, llm, o) ==
    /\ UNCHANGED offDash
    /\ audit_out' = NoAudit
    /\ UNCHANGED <<blockchain, blockchain_file, loaded_document, now,
                   commit_log, tampers>>
    /\ IF key = ""
       THEN /\ verification_passed' = ResetVerificationPassed(verification_passed)
            /\ last_run' = Run("execute_pipeline", NoPath, <<>>,
                                 "NO_API_KEY", NoOutcome)
            /\ UNCHANGED <<current_proof_file, current_proposition, disk>>
       ELSE IF llm.raised \/ ~Unpacks(ExecutePipelineUnpacks, CallLlmReturns)
       THEN \* except Exception: "Error generating code"
            /\ verification_passed' = ResetVerificationPassed(verification_passed)
            /\ last_run' = Prompted(Run("execute_pipeline", NoPath, <<>>,
                                         "GENERATION_ERROR", NoOutcome),
                                     loaded_document)
            /\ UNCHANGED <<current_proof_file, current_proposition, disk>>
       ELSE LET filepath == GeneratedPath(use_case, now)
            IN  /\ current_proposition' = llm.proposition
                /\ IF disk[filepath].st = "unreadable"
                   THEN /\ verification_passed' =
                               ResetVerificationPassed(verification_passed)
                        /\ last_run' = Prompted(
                               Run("execute_pipeline", NoPath, llm.proposition,
                                   "GENERATION_ERROR", NoOutcome),
                               loaded_document)
                        /\ UNCHANGED <<current_proof_file, disk>>
                   ELSE /\ disk' = [disk EXCEPT ![filepath] =
                                        File(WriteText(llm.coq_code))]
                        /\ current_proof_file' = filepath
                        /\ verification_passed' =
                               IF DashboardVerdict(o) = "PASS" THEN TRUE
                               ELSE ResetVerificationPassed(verification_passed)
                        /\ last_run' = Prompted(Checking(
                               Run("execute_pipeline", filepath,
                                   llm.proposition, DashboardVerdict(o), o),
                               WriteText(llm.coq_code)), loaded_document)

\* record_to_blockchain: the guard of its first statement
RecordGuard == verification_passed /\ current_proof_file # NoPath

\* record_to_blockchain: the record that is appended
NewRecord(use_case, verifier, proof_content) ==
    [timestamp |-> now,
     use_case |-> IF PathStartsWith(current_proof_file, "loaded_")
                  THEN "loaded_proof" ELSE use_case,
     proposition |-> current_proposition,
     verifier |-> verifier,
     hash |-> Digest(proof_content, current_proposition),
     proof_file |-> current_proof_file,
     verification_status |-> "PASS",
     document_hash |-> IF loaded_document # "None"
                       THEN DocumentHash(loaded_document)
                       ELSE "absent"]

RecordToBlockchain(use_case, verifier) ==
    /\ UNCHANGED offDash
    /\ audit_out' = NoAudit
    /\ UNCHANGED <<current_proof_file, current_proposition,
                   verification_passed, loaded_document, disk, now, last_run,
                   tampers>>
    /\ IF ~RecordGuard
       THEN \* "No verified proof to record"
            UNCHANGED <<blockchain, blockchain_file, commit_log>>
       ELSE IF disk[current_proof_file].st # "file"
       THEN \* open(self.current_proof_file, 'r') raises: "Error recording"
            UNCHANGED <<blockchain, blockchain_file, commit_log>>
       ELSE LET proof_content == ReadText(disk[current_proof_file].bytes)
                record == NewRecord(use_case, verifier, proof_content)
            IN  /\ Len(blockchain) < MaxRecords
                /\ blockchain' = Append(blockchain, record)
                /\ blockchain_file' = SaveBlockchain(blockchain')
                /\ commit_log' = Append(commit_log,
                       [bytes |-> disk[current_proof_file].bytes,
                        verification_passed |-> verification_passed,
                        run |-> last_run])


----------------------------------------------------------------------------
(* The audits: audit.py and PCODashboard.audit_selected *)

Verdict(status, reason) == [status |-> status, reason |-> reason]

\* audit.py, audit_record: the file is read again and the digest recomputed
\* from what was read and the stored proposition
AuditRecordNameless(record, files) ==
    LET f == files[record.proof_file]
    IN  IF f.st = "absent" THEN Verdict("FAIL", "not_found")
        ELSE IF f.st = "unreadable" THEN Verdict("FAIL", "error")
        ELSE IF Digest(ReadText(f.bytes), <<>>) = record.hash
        THEN Verdict("PASS", "match")
        ELSE Verdict("FAIL", "mismatch")
AuditRecord(record, files) ==
    LET f == files[record.proof_file]
    IN  IF f.st = "absent" THEN Verdict("FAIL", "not_found")
        ELSE IF f.st = "unreadable" THEN Verdict("FAIL", "error")
        ELSE IF Digest(ReadText(f.bytes), record.proposition) = record.hash
        THEN Verdict("PASS", "match")
        ELSE Verdict("FAIL", "mismatch")

\* dashboard.py, audit_selected: the verdict shown for the selected record
AuditSelectedSkipsMissing(record, files) ==
    LET f == files[record.proof_file]
    IN  IF f.st # "file" THEN Verdict("PASS", "match")
        ELSE IF Digest(ReadText(f.bytes), record.proposition) = record.hash
        THEN Verdict("PASS", "match")
        ELSE Verdict("FAIL", "mismatch")
AuditSelectedVerdict(record, files) ==
    LET f == files[record.proof_file]
    IN  IF f.st = "absent" THEN Verdict("FAIL", "not_found")
        ELSE IF f.st = "unreadable" THEN Verdict("ERROR", "error")
        ELSE IF Digest(ReadText(f.bytes), record.proposition) = record.hash
        THEN Verdict("PASS", "match")
        ELSE Verdict("FAIL", "mismatch")

\* audit.py, main: the loop over the records, one verdict for each
AuditVerdictsStopAtFailure(records, files) ==
    LET fails == {i \in 1..Len(records) :
                     AuditRecord(records[i], files).status # "PASS"}
        n == IF fails = {} THEN Len(records)
             ELSE CHOOSE i \in fails : \A k \in fails : i <= k
    IN  [i \in 1..n |-> AuditRecord(records[i], files)]
AuditVerdictsChained(records, files) ==
    [i \in 1..Len(records) |->
        IF i > 1 /\ AuditRecord(records[i - 1], files).status # "PASS"
        THEN Verdict("FAIL", "mismatch")
        ELSE AuditRecord(records[i], files)]
AuditVerdicts(records, files) ==
    [i \in 1..Len(records) |-> AuditRecord(records[i], files)]

\* audit.py, main: the number of verdicts with (or without) status PASS
CountStatus(verdicts, pass) ==
    Cardinality({i \in 1..Len(verdicts) : (verdicts[i].status = "PASS") = pass})

\* audit_selected: the user selects record i of the list box
AuditSelected(i) ==
    /\ UNCHANGED offDash
    /\ i \in 1..Len(blockchain)
    /\ LET v == AuditSelectedVerdict(blockchain[i], disk)
       IN  audit_out' = [tool |-> "audit_selected", first |-> i,
                         verdicts |-> <<v>>,
                         pass_count |-> 0, fail_count |-> 0,
                         seen |-> <<disk[blockchain[i].proof_file]>>]
    /\ UNCHANGED <<blockchain, current_proof_file, current_proposition,
                   verification_passed, loaded_document, blockchain_file,
                   disk, now, last_run, commit_log, tampers>>

\* audit.py, main: every record of the ledger file is audited in order
AuditMain ==
    /\ UNCHANGED offDash
    /\ LET records == LoadBlockchain(blockchain_file)
           verdicts == AuditVerdicts(records, disk)
       IN  audit_out' =
               IF records = <<>>
               THEN [NoAudit EXCEPT !.tool = "audit.py"]
               ELSE [tool |-> "audit.py", first |-> 1, verdicts |-> verdicts,
                     pass_count |-> CountStatus(verdicts, TRUE),
                     fail_count |-> CountStatus(verdicts, FALSE),
                     seen |-> [i \in 1..Len(records) |->
                                  disk[records[i].proof_file]]]
    /\ UNCHANGED <<blockchain, current_proof_file, current_proposition,
                   verification_passed, loaded_document, blockchain_file,
                   disk, now, last_run, commit_log, tampers>>

----------------------------------------------------------------------------
(* The environment of the dashboard *)

\* a second passes
Tick ==
    /\ UNCHANGED offDash
    /\ now < MaxClock
    /\ now' = now + 1
    /\ audit_out' = NoAudit
    /\ UNCHANGED <<blockchain, current_proof_file, current_proposition,
                   verification_passed, loaded_document, blockchain_file,
                   disk, last_run, commit_log, tampers>>

\* somebody changes, removes or locks a stored artifact file
Tamper(path, f) ==
    /\ UNCHANGED offDash
    /\ tampers < MaxTampers
    /\ f \in Tamperings(disk[path])
    /\ disk' = [disk EXCEPT ![path] = f]
    /\ tampers' = tampers + 1
    /\ audit_out' = NoAudit
    /\ UNCHANGED <<blockchain, current_proof_file, current_proposition,
                   verification_passed, loaded_document, blockchain_file,
                   now, last_run, commit_log>>

----------------------------------------------------------------------------
(* One pipeline run, stage by stage: execute_pipeline and                  *)
(* load_existing_proof (dashboard.py), run_single_test                     *)
(* (benchmark_static_logic.py), _run_single_test                           *)
(* (benchmark_stemporal_logic.py) and run_coq (run_proof.py)               *)

Providers == {"claude", "openai", "gemini"}

\* run_benchmark: self.llm_providers, the model asked of each provider
llm_providers ==
    [prov \in Providers |->
        CASE prov = "claude" -> "claude-3-5-sonnet-20241022"
          [] prov = "openai" -> "gpt-4-turbo"
          [] prov = "gemini" -> "gemini-2.0-flash"]

\* call_llm, provider claude: models_to_try
ModelsToTry ==
    << "claude-3-5-sonnet-20241022", "claude-3-5-sonnet-latest",
       "claude-3-5-sonnet-20240620", "claude-3-sonnet-20240229",
       "claude-3-opus-20240229", "claude-3-haiku-20240307",
       "claude-2.1", "claude-2.0", "claude-instant-1.2" >>

\* the texts of the errors a provider call may raise, lower-cased, as the
\* words they contain
ErrorTexts ==
    { <<"overloaded">>,
      <<"404", "not_found">>,
      <<"400", "max_tokens">>,
      <<"401", "authentication">>,
      <<"401", "authentication", "request", "404">>,
      <<"401", "authentication", "request", "400">> }

\* "word" in error_str
Contains(error_str, word) == \E i \in 1..Len(error_str) : error_str[i] = word

\* call_llm, provider claude: the branch taken for the error of one attempt
ClassifyModelError(error_str) ==
    IF Contains(error_str, "not_found") \/ Contains(error_str, "404")
    THEN "not_found"
    ELSE IF Contains(error_str, "max_tokens") \/ Contains(error_str, "400")
    THEN "config"
    ELSE IF Contains(error_str, "authentication") \/ Contains(error_str, "401")
    THEN "authentication"
    ELSE "other"

\* call_llm, provider openai: openai_model = model if model else "gpt-4-turbo"
OpenaiModel(model) == IF model # "" THEN model ELSE "gpt-4-turbo"

\* call_llm, provider gemini: model_name, which gets the prefix "models/"
\* unless it has it
GeminiModelName(model) ==
    CASE model = "" -> "models/gemini-2.5-flash"
      [] model = "gemini-2.0-flash" -> "models/gemini-2.0-flash"
      [] OTHER -> model

\* call_llm, provider gemini: max_retries
GeminiMaxRetries == 3

\* what the call of gemini_model.generate_content came to: a response with
\* text, a response cut at MAX_TOKENS whose partial text is accepted, a
\* response without text (blocked), or an exception
GeminiAnswers ==
    {[finish |-> "stop", chars |-> n] : n \in {0, 1}}
    \cup {[finish |-> "max_tokens", chars |-> n] : n \in {0, 100, 101}}
    \cup {[finish |-> f, chars |-> 0] : f \in {"safety", "error"}}

\* call_llm, provider gemini: len(partial_text) > 100
PartialMinimum == 100

\* call_llm, provider gemini: the turn ends in break: response.text is not
\* empty, or the response was cut at MAX_TOKENS and its partial text is
\* long enough
GeminiAccepts(answer) ==
    \/ answer.finish = "stop" /\ answer.chars > 0
    \/ answer.finish = "max_tokens" /\ answer.chars > PartialMinimum

\* call_llm, provider gemini: if attempt < max_retries - 1: ... continue
GeminiRetriesAlways(attempt) == TRUE
GeminiRetries(attempt) == attempt < GeminiMaxRetries - 1

\* the usage counters a response may carry
Usages == {NoUsage, [present |-> TRUE, input |-> 3, output |-> 5, total |-> 8]}

\* call_llm, provider claude: total_tokens is the sum of the two counters
ClaudeTokens(usage) ==
    [input_tokens |-> usage.input, output_tokens |-> usage.output,
     total_tokens |-> usage.input + usage.output]

\* call_llm, the other providers: the three counters of the response
UsageTokens(usage) ==
    [input_tokens |-> usage.input, output_tokens |-> usage.output,
     total_tokens |-> usage.total]

\* call_llm: token_info is assigned after the text of the response was
\* taken, and only when the response has usage counters
ExtractTokensOfAnyResponse(info, accepted, usage, counters) ==
    IF usage.present THEN counters ELSE info
ExtractTokens(info, accepted, usage, counters) ==
    IF accepted /\ usage.present THEN counters ELSE info

\* call_llm: except Exception as e: raise Exception(f"Error in call_llm:
\* {repr(e)}"), around the exception of the provider's branch
CallLlmError(branch, error) == <<"Error in call_llm:", branch>> \o error

\* call_llm, provider claude: the exception of the else of the loop
NoModelsFound ==
    <<"No available Claude models found. Check your API key permissions.">>

\* run_single_test: except Exception as e: result["error"] = str(e)
WithError(r, text) == [r EXCEPT !.error_is_none = FALSE, !.error = text]

\* text[:n]
Truncated(text, n) == SubSeq(text, 1, IF Len(text) < n THEN Len(text) ELSE n)

\* run_single_test: the statements after subprocess.run, and except
\* Exception for TimeoutExpired and the errors of the spawn
VerifiedTestResult(r, o, stderr) ==
    CASE o.kind = "exited" ->
             IF o.returncode = 0 THEN [r EXCEPT !.success = TRUE]
             ELSE WithError(r, Truncated(stderr, 200))
      [] o.kind = "timeout" ->
             WithError(r, <<"Command", "coqc", "timed out after 30 seconds">>)
      [] o.kind = "not_found" ->
             WithError(r, <<"[Errno 2]", "No such file or directory:", "coqc">>)
      [] OTHER -> WithError(r, <<"[Errno 13]", "Permission denied:", "coqc">>)

\* if not api_key
NoCredentialNever(key) == FALSE
NoCredential(key) == key = ""

\* the seconds subprocess.run waits for the verifier
DashboardTimeout == 60
BenchmarkTimeout == 30
HasTimeout(kind) == kind # "run_coq"
VerifierTimeout(kind) ==
    IF kind = "run_single_test" THEN BenchmarkTimeout ELSE DashboardTimeout

\* run_single_test: result["success"] = verify_result.returncode == 0; a
\* timeout or a failed spawn is caught by except Exception
BenchmarkResult(o) ==
    CASE o.kind = "exited" ->
             IF o.returncode = 0 THEN Result("success", TRUE, "none")
             ELSE Result("failed", FALSE, "stderr")
      [] OTHER -> Result("error", FALSE, o.kind)

\* run_coq: FAIL when the return code is not 0 or the output holds "Error:";
\* an exception of subprocess.run is not caught
RunCoqResult(o) ==
    CASE o.kind = "exited" ->
             IF o.returncode # 0 \/ o.marker THEN Result("FAIL", FALSE, "output")
             ELSE Result("PASS", TRUE, "none")
      [] OTHER -> Result("exception", FALSE, o.kind)

\* execute_pipeline and load_existing_proof: self.verification_passed is set
\* in the PASS branch only
DashboardResult(o) ==
    Result(DashboardVerdict(o), DashboardVerdict(o) = "PASS",
           IF DashboardVerdict(o) = "PASS" THEN "none" ELSE o.kind)

\* generate_stl_spec returns a specification or None
NoSpec == <<>>
StlSpecs == {NoSpec, <<"always", "speed", "<=", "30">>}
SpecNeverNone(spec) == FALSE
SpecIsNone(spec) == spec = NoSpec

\* a run starts: everything of the previous run is forgotten
Begin(kind, key, prov, model, stage) ==
    /\ pc \in {"idle", "done"}
    /\ run_kind' = kind
    /\ api_key' = key
    /\ provider' = prov
    /\ pc' = stage
    /\ llm_entered' = 0
    /\ model_idx' = 0
    /\ calls' = <<>>
    /\ attempted_models' = <<>>
    /\ last_error' = NoError
    /\ auth_failed_at' = 0
    /\ llm_status' = "idle"
    /\ requested_model' = model
    /\ llm_response' = NoResponse
    /\ token_info' = ZeroTokens
    /\ llm_raised' = <<>>
    /\ files_written' = 0
    /\ verifier_calls' = 0
    /\ child' = NoChild
    /\ elapsed' = 0
    /\ outcome' = NoOutcome
    /\ stderr_text' = <<>>
    /\ result' = NoResult
    /\ test_result' = IF kind = "run_single_test" THEN NewTestResult(model)
                      ELSE NoTestResult
    /\ UNCHANGED offRun

\* the run ends with this result
End(r) == pc' = "done" /\ result' = r

\* execute_pipeline is started with the key of the entry field; it calls
\* call_llm without a model
StartExecutePipeline(key, prov) ==
    Begin("execute_pipeline", key, prov, "", "credential")

\* run_single_test(use_case, provider, model) is started; the key is the
\* provider's environment variable
StartRunSingleTest(key, prov, model) ==
    Begin("run_single_test", key, prov, model, "credential")

\* load_existing_proof is started and the chosen file is read
StartLoadExistingProof == Begin("load_existing_proof", "", "none", "", "writing")

\* _run_single_test of the temporal benchmark is started
StartTemporalTest ==
    Begin("temporal_run_single_test", "", "simulated", "", "generating")

\* run_coq(file) is called
StartRunCoq == Begin("run_coq", "", "none", "", "spawn")

\* execute_pipeline, run_single_test: if not api_key: ... return; otherwise
\* call_llm is called
CheckCredential ==
    /\ pc = "credential"
    /\ IF NoCredential(api_key)
       THEN /\ End(Result("error", FALSE, "no_api_key"))
            /\ test_result' =
                   IF run_kind = "run_single_test"
                   THEN WithError(test_result,
                                  <<"No", provider,
                                    "API key found in environment">>)
                   ELSE test_result
            /\ UNCHANGED llmVars
       ELSE /\ pc' = "generating"
            /\ llm_entered' = llm_entered + 1
            /\ llm_status' = "running"
            /\ token_info' = ZeroTokens
            /\ UNCHANGED <<result, test_result, model_idx, calls,
                           attempted_models, last_error, auth_failed_at,
                           requested_model, llm_response, llm_raised>>
    /\ UNCHANGED <<run_kind, api_key, provider, files_written, verifierVars,
                   offRun>>

\* call_llm, provider claude: one turn of the loop over models_to_try;
\* response is NoError when the call returns a message whose text can be
\* taken; usage is what the message carries
TryModel(response, usage) ==
    /\ pc = "generating" /\ provider = "claude" /\ llm_status = "running"
    /\ model_idx < Len(ModelsToTry)
    /\ LET model == ModelsToTry[model_idx + 1]
       IN  /\ model_idx' = model_idx + 1
           /\ calls' = Append(calls, model)
           /\ IF response = NoError
              THEN \* break
                   /\ llm_status' = "returned"
                   /\ llm_response' = Response(model, usage, "stop", 1)
                   /\ UNCHANGED <<attempted_models, last_error,
                                  auth_failed_at, llm_raised>>
              ELSE /\ attempted_models' = Append(attempted_models, model)
                   /\ llm_raised' =
                          IF ClassifyModelError(response) = "authentication"
                          THEN CallLlmError("Claude API error:", response)
                          ELSE llm_raised
                   /\ UNCHANGED llm_response
                   /\ last_error' = response
                   /\ auth_failed_at' =
                          IF /\ auth_failed_at = 0
                             /\ \/ Contains(response, "authentication")
                                \/ Contains(response, "401")
                          THEN model_idx + 1 ELSE auth_failed_at
                   /\ llm_status' =
                          IF ClassifyModelError(response) = "authentication"
                          THEN "authentication_error"   \* raise
                          ELSE "running"                \* continue
    /\ token_info' = ExtractTokens(token_info, response = NoError, usage,
                                   ClaudeTokens(usage))
    /\ UNCHANGED <<run_kind, pc, api_key, provider, llm_entered, files_written,
                   requested_model, verifierVars, result, test_result,
                   offRun>>

\* call_llm, provider claude: the else of the loop, "No available Claude
\* models found"
ModelsExhausted ==
    /\ pc = "generating" /\ provider = "claude" /\ llm_status = "running"
    /\ model_idx = Len(ModelsToTry)
    /\ llm_status' = "exhausted"
    /\ llm_raised' = CallLlmError("Claude API error:", NoModelsFound)
    /\ UNCHANGED <<run_kind, pc, api_key, provider, llm_entered, model_idx,
                   calls, attempted_models, last_error, auth_failed_at,
                   requested_model, llm_response, token_info,
                   files_written, verifierVars, result, test_result, offRun>>

\* call_llm, the providers with one model: one call, which returns or raises
CallProvider(response, usage) ==
    /\ pc = "generating" /\ provider = "openai" /\ llm_status = "running"
    /\ calls' = Append(calls, OpenaiModel(requested_model))
    /\ last_error' = response
    /\ llm_status' = IF response = NoError THEN "returned" ELSE "provider_error"
    /\ llm_response' =
           IF response = NoError
           THEN Response(OpenaiModel(requested_model), usage, "stop", 1)
           ELSE llm_response
    /\ token_info' = ExtractTokens(token_info, response = NoError, usage,
                                   UsageTokens(usage))
    /\ llm_raised' = IF response = NoError THEN llm_raised
                     ELSE CallLlmError("OpenAI API error:", response)
    /\ UNCHANGED <<run_kind, pc, api_key, provider, llm_entered, model_idx,
                   attempted_models, auth_failed_at, requested_model,
                   files_written, verifierVars, result, test_result, offRun>>

\* call_llm, provider gemini: one turn of the loop over range(max_retries);
\* model_idx is attempt.  A turn that fails is followed by another one
\* unless it is the last, whose exception is raised
GeminiAttempt(answer, usage) ==
    /\ pc = "generating" /\ provider = "gemini" /\ llm_status = "running"
    /\ model_idx < GeminiMaxRetries
    /\ answer.finish = "error" => ~usage.present
    /\ model_idx' = model_idx + 1
    /\ calls' = Append(calls, GeminiModelName(requested_model))
    /\ token_info' = ExtractTokens(token_info, GeminiAccepts(answer),
                                   usage, UsageTokens(usage))
    /\ IF GeminiAccepts(answer)
       THEN \* break
            /\ llm_status' = "returned"
            /\ llm_response' = Response(GeminiModelName(requested_model),
                                        usage, answer.finish, answer.chars)
            /\ UNCHANGED <<last_error, llm_raised>>
       ELSE /\ last_error' = <<answer.finish>>
            /\ UNCHANGED llm_response
            /\ IF GeminiRetries(model_idx)
               THEN \* continue
                    UNCHANGED <<llm_status, llm_raised>>
               ELSE \* raise
                    /\ llm_status' = "provider_error"
                    /\ llm_raised' = CallLlmError("Gemini API error:",
                                                  <<answer.finish>>)
    /\ UNCHANGED <<run_kind, pc, api_key, provider, llm_entered,
                   attempted_models, auth_failed_at, requested_model,
                   files_written, verifierVars, result, test_result, offRun>>

\* call_llm has returned or raised.  execute_pipeline unpacks the returned
\* tuple into two names; run_single_test into three
AfterCallLlm ==
    /\ pc = "generating"
    /\ run_kind \in {"execute_pipeline", "run_single_test"}
    /\ llm_status \notin {"idle", "running"}
    /\ IF llm_status # "returned"
       THEN End(Result("error", FALSE, llm_status))
       ELSE IF /\ run_kind = "execute_pipeline"
               /\ ~Unpacks(ExecutePipelineUnpacks, CallLlmReturns)
       THEN End(Result("error", FALSE, "ValueError"))
       ELSE pc' = "writing" /\ UNCHANGED result
    /\ test_result' =
           IF run_kind # "run_single_test" THEN test_result
           ELSE IF llm_status # "returned"
           THEN WithError(test_result, llm_raised)
           ELSE [test_result EXCEPT
                    !.input_tokens = token_info.input_tokens,
                    !.output_tokens = token_info.output_tokens,
                    !.total_tokens = token_info.total_tokens]
    /\ UNCHANGED <<run_kind, api_key, provider, llmVars, files_written,
                   verifierVars, offRun>>

\* _run_single_test (temporal): generate_stl_spec, and on a specification
\* RTAMTVerifier.verify_spec, which runs inside the process and returns
GenerateAndVerifySpec(spec, satisfied) ==
    /\ pc = "generating" /\ run_kind = "temporal_run_single_test"
    /\ llm_status' = IF spec = NoSpec THEN "no_output" ELSE "returned"
    /\ IF SpecIsNone(spec)
       THEN /\ End(Result("failed", FALSE, "STL generation failed"))
            /\ UNCHANGED verifier_calls
       ELSE /\ verifier_calls' = verifier_calls + 1
            /\ End(IF satisfied THEN Result("success", TRUE, "none")
                   ELSE Result("failed", FALSE, "Verification failed"))
    /\ UNCHANGED <<run_kind, api_key, provider, llm_entered, model_idx, calls,
                   attempted_models, last_error, auth_failed_at,
                   requested_model, llm_response, token_info, llm_raised,
                   files_written, child, elapsed, outcome, stderr_text,
                   test_result, offRun>>

\* the artifact file is written (open(..., 'w') may raise)
WriteArtifact(written) ==
    /\ pc = "writing"
    /\ IF written
       THEN /\ files_written' = files_written + 1
            /\ pc' = "spawn"
            /\ UNCHANGED result
       ELSE /\ End(Result("error", FALSE, "OSError"))
            /\ UNCHANGED files_written
    /\ test_result' =
           IF run_kind = "run_single_test" /\ ~written
           THEN WithError(test_result, <<"[Errno 13]", "Permission denied:",
                                        "pco_storage">>)
           ELSE test_result
    /\ UNCHANGED <<run_kind, api_key, provider, llmVars, verifierVars, offRun>>

\* subprocess.run([verifier, file], ...) starts the child process, or fails
\* to; a child may be one that never exits
SpawnVerifier(how) ==
    /\ pc = "spawn"
    /\ verifier_calls' = verifier_calls + 1
    /\ IF how \in {"not_found", "os_error"}
       THEN /\ outcome' = [kind |-> how, returncode |-> 1, marker |-> FALSE]
            /\ pc' = "classify"
            /\ UNCHANGED child
       ELSE /\ child' = [st |-> "running", hangs |-> (how = "hangs")]
            /\ pc' = "verifying"
            /\ UNCHANGED outcome
    /\ UNCHANGED <<run_kind, api_key, provider, llmVars, files_written,
                   elapsed, stderr_text, result, test_result, offRun>>

\* the child exits by itself; what it wrote to its standard error holds
\* the marker "Error:" or not, and other words or not
ChildExits(rc, marker, warns) ==
    /\ pc = "verifying" /\ child.st = "running" /\ ~child.hangs
    /\ child' = [child EXCEPT !.st = "exited"]
    /\ outcome' = Exited(rc, marker)
    /\ stderr_text' = (IF marker THEN <<"Error:">> ELSE <<>>)
                          \o (IF warns THEN <<"Warning:">> ELSE <<>>)
    /\ pc' = "classify"
    /\ UNCHANGED <<run_kind, api_key, provider, llmVars, files_written,
                   verifier_calls, elapsed, result, test_result, offRun>>

\* a second passes while subprocess.run waits with a timeout
WaitSecond ==
    /\ pc = "verifying" /\ child.st = "running"
    /\ HasTimeout(run_kind)
    /\ elapsed < VerifierTimeout(run_kind)
    /\ elapsed' = elapsed + 1
    /\ UNCHANGED <<run_kind, pc, api_key, provider, llmVars, files_written,
                   verifier_calls, child, outcome, stderr_text, result,
                   test_result, offRun>>

\* the timeout of subprocess.run expires: the child is killed and
\* TimeoutExpired is raised
TimeoutExpires ==
    /\ pc = "verifying" /\ child.st = "running"
    /\ HasTimeout(run_kind)
    /\ elapsed = VerifierTimeout(run_kind)
    /\ child' = [child EXCEPT !.st = "killed"]
    /\ outcome' = [kind |-> "timeout", returncode |-> 1, marker |-> FALSE]
    /\ pc' = "classify"
    /\ UNCHANGED <<run_kind, api_key, provider, llmVars, files_written,
                   verifier_calls, elapsed, stderr_text, result, test_result,
                   offRun>>

\* the statements after subprocess.run, and its except clauses
ClassifyRetries ==
    /\ pc = "classify"
    /\ LET r == CASE run_kind = "run_single_test" -> BenchmarkResult(outcome)
                  [] run_kind = "run_coq" -> RunCoqResult(outcome)
                  [] OTHER -> DashboardResult(outcome)
       IN  IF r.passed THEN End(r) ELSE pc' = "spawn" /\ UNCHANGED result
    /\ test_result' =
           IF run_kind = "run_single_test"
           THEN VerifiedTestResult(test_result, outcome, stderr_text)
           ELSE test_result
    /\ UNCHANGED <<run_kind, api_key, provider, llmVars, files_written,
                   verifierVars, offRun>>
Classify ==
    /\ pc = "classify"
    /\ End(CASE run_kind = "run_single_test" -> BenchmarkResult(outcome)
             [] run_kind = "run_coq" -> RunCoqResult(outcome)
             [] OTHER -> DashboardResult(outcome))
    /\ test_result' =
           IF run_kind = "run_single_test"
           THEN VerifiedTestResult(test_result, outcome, stderr_text)
           ELSE test_result
    /\ UNCHANGED <<run_kind, api_key, provider, llmVars, files_written,
                   verifierVars, offRun>>

RunNext ==
    \/ \E key \in ApiKeys, prov \in Providers : StartExecutePipeline(key, prov)
    \/ \E key \in ApiKeys, prov \in Providers :
          StartRunSingleTest(key, prov, llm_providers[prov])
    \/ StartLoadExistingProof
    \/ StartTemporalTest
    \/ StartRunCoq
    \/ CheckCredential
    \/ \E response \in ErrorTexts \cup {NoError}, usage \in Usages :
          TryModel(response, usage)
    \/ ModelsExhausted
    \/ \E response \in ErrorTexts \cup {NoError}, usage \in Usages :
          CallProvider(response, usage)
    \/ \E answer \in GeminiAnswers, usage \in Usages :
          GeminiAttempt(answer, usage)
    \/ AfterCallLlm
    \/ \E spec \in StlSpecs, satisfied \in BOOLEAN :
          GenerateAndVerifySpec(spec, satisfied)
    \/ \E written \in BOOLEAN : WriteArtifact(written)
    \/ \E how \in {"exits", "hangs", "not_found", "os_error"} : SpawnVerifier(how)
    \/ \E rc \in {0, 1}, marker \in BOOLEAN, warns \in BOOLEAN :
          ChildExits(rc, marker, warns)
    \/ WaitSecond
    \/ TimeoutExpires
    \/ Classify

Next ==
    \/ \E stem \in Stems \cup {""} :
          \E src \in (IF stem = "" THEN {Unreadable} ELSE SourceFiles) :
             \E o \in (IF src.st = "file" THEN VerifierOutcomes
                        ELSE {Exited(1, FALSE)}) :
                LoadExistingProof(stem, src, o)
    \/ \E u \in UseCases, k \in ApiKeys :
          \E llm \in (IF k = "" THEN {NoLlmResult} ELSE LlmResults) :
             \E o \in (IF llm.raised THEN {Exited(1, FALSE)}
                        ELSE VerifierOutcomes) :
                ExecutePipeline(u, k, llm, o)
    \/ \E u \in UseCases, v \in Verifiers : RecordToBlockchain(u, v)
    \/ \E i \in 1..MaxRecords : AuditSelected(i)
    \/ AuditMain
    \/ Tick
    \/ \E path \in AllPaths : \E f \in Tamperings(disk[path]) : Tamper(path, f)

vars == <<dashVars, runVars, sanVars, ledVars>>

Spec == Init /\ [][Next]_vars

\* the dashboard with its document: load_documents, the two handlers that
\* produce an artifact, and record_to_blockchain
DocNext ==
    \/ \E document \in DocumentFiles : LoadDocuments(document)
    \/ \E stem \in Stems \cup {""} :
          \E src \in (IF stem = "" THEN {Unreadable} ELSE SourceFiles) :
             \E o \in (IF src.st = "file" THEN VerifierOutcomes
                        ELSE {Exited(1, FALSE)}) :
                LoadExistingProof(stem, src, o)
    \/ \E u \in UseCases, k \in ApiKeys :
          \E llm \in (IF k = "" THEN {NoLlmResult} ELSE LlmResults) :
             \E o \in (IF llm.raised THEN {Exited(1, FALSE)}
                        ELSE VerifierOutcomes) :
                ExecutePipeline(u, k, llm, o)
    \/ \E u \in UseCases, v \in Verifiers : RecordToBlockchain(u, v)
    \/ Tick

DocSpec == Init /\ [][DocNext]_vars

RunSpec == Init /\ [][RunNext]_vars

\* a step that can be taken is taken: the interpreter goes on to its next
\* statement, a child that exits is reaped, the timer of subprocess.run fires
FairRunSpec == Init /\ [][RunNext]_vars /\ WF_vars(RunNext)

----------------------------------------------------------------------------
(* The sanitizer applied to the responses of a provider *)

\* the lines a response is made of
ResponseLines ==
    { <<"Here">>,
      <<"Importantly">>,
      <<FENCE>>,
      <<FENCE, "coq">>,
      <<FENCE, "python">>,
      <<"Theorem", " ", "A", ".">>,
      <<" ", "Lemma", " ", "B", ".">>,
      <<"Module", " ", "Tax", ".", "v">>,
      <<"File", " ", "1:">>,
      <<"Require", " ", "Import", " ", "Coq", ".", "Arith">>,
      <<"x", " ", "From", " ", "Coq", " ", "Require", " ", "Import", " ", "Arith", ".">>,
      <<"x", " ", "Require", " ", "Import", " ", "Coq", ".", "Coq", ".", "Arith", ".">>,
      <<OPENER, " ", "x">>,
      <<CLOSER>> }

\* the declaration keywords of coq_keywords, and some identifiers
DeclarationKeywords == CoqKeywords \ {OPENER}
Identifiers == {"Foo", "A"}

\* a prose line, then one fenced block that holds the declaration "K N."
FencedDeclaration(K, N) ==
    JoinLines(<< <<"Here">>, <<FENCE>>, <<K, " ", N, ".">>, <<FENCE>> >>)

\* a block without a language tag, then a block with the tag coq
TwoBlocks ==
    JoinLines(<< <<FENCE>>, <<"Theorem", " ", "A", ".">>, <<FENCE>>,
                 <<FENCE, "coq">>, <<"Lemma", " ", "B", ".">>, <<FENCE>> >>)

Responses ==
    UNION {{JoinLines(lines) : lines \in [1..n -> ResponseLines]} :
             n \in 1..MaxLines}
    \cup {FencedDeclaration(K, N) : K \in DeclarationKeywords, N \in Identifiers}
    \cup {TwoBlocks}

\* call_llm receives a response and returns the sanitized code and the
\* proposition
SanitizeResponse(response) ==
    /\ passes = 0
    /\ raw_text' = response
    /\ prev_text' = response
    /\ coq_text' = Sanitize(response)
    /\ name_text' = InferProposition(Sanitize(response))
    /\ passes' = 1
    /\ UNCHANGED offSan

\* the returned code is given to the sanitizer again
SanitizeAgain ==
    /\ passes >= 1
    /\ passes < MaxPasses
    /\ prev_text' = coq_text
    /\ coq_text' = Sanitize(coq_text)
    /\ name_text' = InferProposition(Sanitize(coq_text))
    /\ passes' = passes + 1
    /\ UNCHANGED <<raw_text, offSan>>

SanNext ==
    \/ \E response \in Responses : SanitizeResponse(response)
    \/ SanitizeAgain

SanSpec == Init /\ [][SanNext]_vars

----------------------------------------------------------------------------
(* Properties of the ledger and of the audits, checked under Spec *)

\* the verifier accepted the artifact: the child exited with status 0 and
\* did not write the failure marker "Error:" to its standard error
CheckerAccepted(o) == o.kind = "exited" /\ o.returncode = 0 /\ ~o.marker

\* the k-th verdict of the last audit is about this record of the ledger
Audited(k) == audit_out.first + k - 1

\* C1: a record is appended only while verification_passed is true; while
\* verification_passed is true, current_proof_file and current_proposition
\* are those of the most recent run and the verifier accepted that run's
\* artifact; an artifact whose verification failed, timed out or errored is
\* never committed
C1_CommitOnlyVerified ==
    /\ \A i \in 1..Len(commit_log) :
          /\ commit_log[i].verification_passed
          /\ CheckerAccepted(commit_log[i].run.outcome)
    /\ verification_passed =>
          /\ last_run.path = current_proof_file
          /\ last_run.proposition = current_proposition
          /\ CheckerAccepted(last_run.outcome)

\* C1, the case that breaks it: a record was appended for an artifact about
\* which the verifier wrote its failure marker
C1_RejectedArtifactCommitted ==
    \E i \in 1..Len(commit_log) :
        /\ commit_log[i].run.outcome.kind = "exited"
        /\ commit_log[i].run.outcome.marker
        /\ blockchain[i].verification_status = "PASS"

\* C3: when the artifact file of a committed record holds what it held at
\* the commit, an audit of the record (audit.py or audit_selected) says PASS
C3_UnmodifiedAuditsPass ==
    \A k \in 1..Len(audit_out.verdicts) :
        audit_out.seen[k] = File(commit_log[Audited(k)].bytes)
            => audit_out.verdicts[k].status = "PASS"

\* C3, its case: both records of a ledger were audited by audit.py after a
\* file was touched, and an untouched one passed
C3_UnmodifiedAudited ==
    /\ audit_out.tool = "audit.py"
    /\ Len(audit_out.verdicts) = MaxRecords
    /\ tampers > 0
    /\ \E k \in 1..Len(audit_out.verdicts) :
          /\ audit_out.seen[k] = File(commit_log[Audited(k)].bytes)
          /\ audit_out.verdicts[k].status = "PASS"

\* C4: when the artifact file of a committed record holds other bytes than
\* it held at the commit, an audit of the record does not say PASS
C4_ChangedContentFailsAudit ==
    \A k \in 1..Len(audit_out.verdicts) :
        (/\ audit_out.seen[k].st = "file"
         /\ audit_out.seen[k].bytes # commit_log[Audited(k)].bytes)
            => audit_out.verdicts[k].status # "PASS"

\* C4, the case that breaks it: the line ends of the file were rewritten
\* after the commit and the audit passed the record
C4_RewrittenLineEndsPass ==
    \E k \in 1..Len(audit_out.verdicts) :
        /\ audit_out.seen[k].st = "file"
        /\ audit_out.seen[k].bytes = ToCrLf(commit_log[Audited(k)].bytes)
        /\ audit_out.seen[k].bytes # commit_log[Audited(k)].bytes
        /\ audit_out.verdicts[k].status = "PASS"

\* C5: a committed record whose artifact file is gone gets a verdict (no
\* record is skipped), the verdict is a failure, and audit.py counts it
\* among the failed records
C5_MissingFileFails ==
    /\ audit_out.tool = "audit.py" =>
          /\ Len(audit_out.verdicts) = Len(blockchain_file.records)
          /\ audit_out.pass_count + audit_out.fail_count =
                 Len(audit_out.verdicts)
          /\ audit_out.fail_count >=
                 Cardinality({k \in 1..Len(audit_out.seen) :
                                 audit_out.seen[k].st = "absent"})
    /\ audit_out.tool = "audit_selected" => Len(audit_out.verdicts) = 1
    /\ \A k \in 1..Len(audit_out.verdicts) :
          audit_out.seen[k].st = "absent"
              => audit_out.verdicts[k] = Verdict("FAIL", "not_found")

\* C5, its case: audit.py audited a ledger of which one artifact file was
\* gone and another was still there
C5_MissingFileAudited ==
    /\ audit_out.tool = "audit.py"
    /\ \E k \in 1..Len(audit_out.seen) : audit_out.seen[k].st = "absent"
    /\ \E k \in 1..Len(audit_out.seen) : audit_out.seen[k].st = "file"
    /\ audit_out.fail_count = 1
    /\ audit_out.pass_count = 1

----------------------------------------------------------------------------
(* Properties of a pipeline run, checked under RunSpec and FairRunSpec *)

\* the run is one of the three pipelines that generate before they verify
IsPipelineRun ==
    run_kind \in {"execute_pipeline", "run_single_test",
                  "temporal_run_single_test"}

\* generation has failed: the credential was missing, the provider call(s)
\* ended in an error, or the generator had no output
GenerationFailed ==
    /\ IsPipelineRun
    /\ \/ result.error = "no_api_key"
       \/ llm_status \in {"authentication_error", "exhausted",
                          "provider_error", "no_output"}

\* C2: in a pipeline run whose generation has failed no artifact file is
\* written, the verifier is never invoked, and the run ends failed
C2_FailedGenerationStops ==
    GenerationFailed =>
        /\ files_written = 0
        /\ verifier_calls = 0
        /\ child = NoChild
        /\ pc \in {"generating", "done"}
        /\ pc = "done" => ~result.passed /\ result.status \in {"error", "failed"}

\* C2, its case: a run of the temporal benchmark has ended failed after its
\* generator gave no output
C2_GenerationFailedRunEnded ==
    /\ pc = "done"
    /\ run_kind = "temporal_run_single_test"
    /\ llm_status = "no_output"
    /\ ~result.passed

\* C6: a verifier that exits with status 0 and has written the failure
\* marker to its standard error never gives a passed result, whichever
\* handler invoked it
C6_MarkerNeverPasses ==
    (/\ pc = "done"
     /\ verifier_calls > 0
     /\ outcome = Exited(0, TRUE))
        => ~result.passed

\* C6, the case that breaks it: load_existing_proof ended with
\* verification passed although the marker was written
C6_MarkerPassedInDashboard ==
    /\ pc = "done"
    /\ run_kind = "load_existing_proof"
    /\ outcome = Exited(0, TRUE)
    /\ result.passed

\* C7: a verifier invocation ends, and so does the run; a child that has
\* not exited when the timeout has elapsed gives the timeout outcome and a
\* result that is not passed
C7_VerifierInvocationTerminates ==
    /\ (pc = "verifying") ~> (pc = "done")
    /\ [](outcome.kind = "timeout" =>
            /\ elapsed = VerifierTimeout(run_kind)
            /\ pc = "done" => ~result.passed)

\* C7, the case that breaks it: run_coq waits for a child that never exits
C7_RunCoqWaitsOnHungChild ==
    /\ run_kind = "run_coq"
    /\ pc = "verifying"
    /\ child = [st |-> "running", hangs |-> TRUE]
    /\ ~ENABLED RunNext

\* C8: the models asked of the provider are the first models of
\* models_to_try in their order, each once; a model is asked only after
\* every earlier one failed, and none of those with an authentication
\* error; the exhausted failure comes after all models were asked
C8_CandidatesInOrder ==
    provider = "claude" =>
        /\ Len(calls) <= Len(ModelsToTry)
        /\ calls = SubSeq(ModelsToTry, 1, Len(calls))
        /\ \A i, j \in 1..Len(calls) : calls[i] = calls[j] => i = j
        /\ Len(calls) > 0 =>
              attempted_models \in {calls, SubSeq(calls, 1, Len(calls) - 1)}
        /\ auth_failed_at # 0 => Len(calls) = auth_failed_at
        /\ llm_status = "exhausted" => calls = ModelsToTry

\* C8, the case that breaks it: a second model was asked after the first
\* failed with an authentication error
C8_NextModelAfterAuthError ==
    /\ provider = "claude"
    /\ auth_failed_at = 1
    /\ Len(calls) = 2

\* C9: once an attempt has failed with an error whose text carries an
\* authentication or 401 marker, call_llm has raised and no later model is
\* asked
C9_AuthenticationErrorAborts ==
    (provider = "claude" /\ auth_failed_at # 0) =>
        /\ llm_status = "authentication_error"
        /\ model_idx = auth_failed_at
        /\ Len(attempted_models) = auth_failed_at

\* C9, the case that breaks it: every model was asked although the first
\* attempt failed with an authentication error
C9_ExhaustedAfterAuthError ==
    /\ provider = "claude"
    /\ auth_failed_at = 1
    /\ Contains(last_error, "401")
    /\ llm_status = "exhausted"

\* C10: with an empty credential call_llm is not entered, no provider is
\* called, and the run ends with the no-credential error
C10_EmptyCredentialNoCall ==
    (run_kind \in {"execute_pipeline", "run_single_test"} /\ api_key = "") =>
        /\ llm_entered = 0
        /\ calls = <<>>
        /\ llm_status = "idle"
        /\ pc \in {"credential", "done"}
        /\ pc = "done" => result = Result("error", FALSE, "no_api_key")

\* C10, its case: a run with an empty credential has ended
C10_EmptyCredentialRunEnded ==
    /\ run_kind \in {"execute_pipeline", "run_single_test"}
    /\ api_key = ""
    /\ pc = "done"
    /\ result.error = "no_api_key"

----------------------------------------------------------------------------
(* Dashboards that share one ledger file, and audit.py on that file *)

\* PCODashboard.__init__: load_blockchain, then the fields are set
OpenController(c) ==
    /\ ~controllers[c].opened
    /\ controllers' = [controllers EXCEPT ![c] =
           IF LoadRaises(ledger_file)
           THEN [NoController EXCEPT !.dialog = "Traceback"]
           ELSE [NoController EXCEPT
                    !.opened = TRUE,
                    !.blockchain = LoadBlockchain(ledger_file),
                    !.is_list = LoadsList(ledger_file)]]
    /\ UNCHANGED <<ledger_file, storage, commits, report, prev_report, damages>>
    /\ UNCHANGED offLed

\* load_existing_proof in dashboard c, on a file that can be read
VerifyLoaded(c, stem, src, o) ==
    /\ controllers[c].opened
    /\ controllers[c].runs < MaxRuns
    /\ LET proof_content == ReadText(src.bytes)
           proposition == LoadedProposition(proof_content, stem)
           stored_path == StoredPath(stem, 0)
       IN  IF storage[stored_path].st = "unreadable"
           THEN \* open(stored_path, 'w') raises
                /\ controllers' = [controllers EXCEPT ![c] =
                       [@ EXCEPT !.current_proposition = proposition,
                                 !.verification_passed =
                                     ResetVerificationPassed(@),
                                 !.runs = @ + 1,
                                 !.dialog = "none"]]
                /\ UNCHANGED storage
           ELSE /\ storage' = [storage EXCEPT ![stored_path] =
                                   File(WriteText(proof_content))]
                /\ controllers' = [controllers EXCEPT ![c] =
                       [@ EXCEPT !.current_proposition = proposition,
                                 !.current_proof_file = stored_path,
                                 !.verification_passed =
                                     IF DashboardVerdict(o) = "PASS" THEN TRUE
                                     ELSE ResetVerificationPassed(@),
                                 !.runs = @ + 1,
                                 !.dialog = DashboardVerdict(o)]]
    /\ UNCHANGED <<ledger_file, commits, report, prev_report, damages>>
    /\ UNCHANGED offLed

\* record_to_blockchain: the guard of its first statement, in dashboard d
GuardOf(d) == d.verification_passed /\ d.current_proof_file # NoPath

\* record_to_blockchain: open(self.current_proof_file, 'r') and read()
\* come to an end without raising
CanReadAlways(f) == TRUE
CanRead(f) == f.st = "file"

\* record_to_blockchain: the record that dashboard d appends; the clock of
\* datetime.now().isoformat() has advanced since the commit before
RecordOf(d, use_case, verifier, proof_content, timestamp) ==
    [timestamp |-> timestamp,
     use_case |-> IF PathStartsWith(d.current_proof_file, "loaded_")
                  THEN "loaded_proof" ELSE use_case,
     proposition |-> d.current_proposition,
     verifier |-> verifier,
     hash |-> Digest(proof_content, d.current_proposition),
     proof_file |-> d.current_proof_file,
     verification_status |-> "PASS",
     document_hash |-> "absent"]

\* an invocation of record_to_blockchain, as it is kept in commits
Invocation(c, d, dialog, appended, proof_content, record) ==
    [by |-> c, run |-> d.runs, guard |-> GuardOf(d),
     file |-> IF d.current_proof_file = NoPath THEN Absent
              ELSE storage[d.current_proof_file],
     dialog |-> dialog, appended |-> appended,
     proof_content |-> proof_content, record |-> record]

\* record_to_blockchain in dashboard c
Commit(c, use_case, verifier) ==
    LET d == controllers[c]
        f == IF d.current_proof_file = NoPath THEN Absent
             ELSE storage[d.current_proof_file]
        proof_content == ReadText(f.bytes)
        record == RecordOf(d, use_case, verifier, proof_content, Len(commits))
        dialog == IF ~GuardOf(d) THEN "No verified proof to record"
                  ELSE IF ~CanRead(f) \/ ~d.is_list THEN "Failed to record"
                  ELSE "Proof recorded to blockchain!"
        appended == dialog = "Proof recorded to blockchain!"
    IN  /\ d.opened
        /\ Len(commits) < MaxCommits
        /\ commits' = Append(commits,
               Invocation(c, d, dialog, appended, proof_content, record))
        /\ IF appended
           THEN /\ controllers' = [controllers EXCEPT ![c] =
                       [@ EXCEPT !.blockchain = Append(@, record),
                                 !.dialog = dialog]]
                /\ ledger_file' = SaveBlockchain(Append(d.blockchain, record))
           ELSE /\ controllers' = [controllers EXCEPT ![c].dialog = dialog]
                /\ UNCHANGED ledger_file
        /\ UNCHANGED <<storage, report, prev_report, damages>>
        /\ UNCHANGED offLed

\* audit.py, main, on the shared ledger file
AuditAll ==
    /\ prev_report' = report
    /\ report' =
         IF LoadRaises(ledger_file)
         THEN [NoReport EXCEPT !.tool = "audit.py", !.opened = ledger_file,
                               !.raised = TRUE]
         ELSE LET records == LoadBlockchain(ledger_file)
                  verdicts == AuditVerdicts(records, storage)
              IN  IF records = <<>>
                  THEN [NoReport EXCEPT !.tool = "audit.py",
                                        !.opened = ledger_file,
                                        !.no_records = TRUE]
                  ELSE [tool |-> "audit.py", opened |-> ledger_file,
                        raised |-> FALSE,
                        no_records |-> FALSE, records |-> records,
                        seen |-> [i \in 1..Len(records) |->
                                     storage[records[i].proof_file]],
                        verdicts |-> verdicts,
                        pass_count |-> CountStatus(verdicts, TRUE),
                        fail_count |-> CountStatus(verdicts, FALSE),
                        all_authentic |-> CountStatus(verdicts, FALSE) = 0]
    /\ UNCHANGED <<controllers, ledger_file, storage, commits, damages>>
    /\ UNCHANGED offLed

\* the sequence without its element i
Remove(seq, i) == SubSeq(seq, 1, i - 1) \o SubSeq(seq, i + 1, Len(seq))

\* the sequence from its last element to its first
Reverse(seq) == [i \in 1..Len(seq) |-> seq[Len(seq) + 1 - i]]

\* what somebody outside the program may turn the ledger file into: a file
\* that does not load, or the list with a record removed or in another order
LedgerDamages(file) ==
    IF ~file.exists \/ file.damage # "none" THEN {}
    ELSE {[file EXCEPT !.damage = k] : k \in {"garbage", "locked", "falsy"}}
         \cup {[file EXCEPT !.records = Remove(file.records, i)] :
                  i \in 1..Len(file.records)}
         \cup ({[file EXCEPT !.records = Reverse(file.records)]} \ {file})

\* somebody outside the program changes the ledger file
DamageLedger(file) ==
    /\ damages < MaxDamages
    /\ file \in LedgerDamages(ledger_file)
    /\ ledger_file' = file
    /\ damages' = damages + 1
    /\ UNCHANGED <<controllers, storage, commits, report, prev_report>>
    /\ UNCHANGED offLed

\* somebody outside the program changes, removes or locks an artifact file
DamageArtifact(path, f) ==
    /\ damages < MaxDamages
    /\ f \in Tamperings(storage[path])
    /\ storage' = [storage EXCEPT ![path] = f]
    /\ damages' = damages + 1
    /\ UNCHANGED <<controllers, ledger_file, commits, report, prev_report>>
    /\ UNCHANGED offLed

LedgerNext ==
    \/ \E c \in Controllers : OpenController(c)
    \/ \E c \in Controllers, stem \in SharedStems, src \in SharedSources,
          o \in {Exited(0, FALSE), Exited(1, FALSE)} :
             VerifyLoaded(c, stem, src, o)
    \/ \E c \in Controllers, u \in UseCases, v \in Verifiers : Commit(c, u, v)
    \/ AuditAll
    \/ \E file \in LedgerDamages(ledger_file) : DamageLedger(file)
    \/ \E path \in SharedPaths :
          \E f \in Tamperings(storage[path]) : DamageArtifact(path, f)

LedgerSpec == Init /\ [][LedgerNext]_vars

----------------------------------------------------------------------------
(* Properties of the sanitizer, checked under SanSpec *)

\* C11: the sanitizer applied to its own output returns that output
C11_SanitizerIdempotent ==
    passes >= 2 => coq_text = prev_text

\* C11, the case that breaks it: a line "Module Tax.v" that starts with a
\* keyword is dropped as a header, the prose line after it is kept by the
\* first pass and trimmed by the second
C11_SecondPassTrimsMore ==
    /\ passes = 2
    /\ raw_text = JoinLines(<< <<"Module", " ", "Tax", ".", "v">>, <<"Here">>,
                               <<"Theorem", " ", "A", ".">> >>)
    /\ prev_text = JoinLines(<< <<"Here">>, <<"Theorem", " ", "A", ".">> >>)
    /\ coq_text = <<"Theorem", " ", "A", ".">>

\* C12: a prose line followed by one fenced block that holds "K N.", for a
\* declaration keyword K of coq_keywords, is sanitized to "K N." and the
\* proposition is N
C12_FencedDeclarationSanitized ==
    \A K \in DeclarationKeywords, N \in Identifiers :
        (passes = 1 /\ raw_text = FencedDeclaration(K, N)) =>
            /\ coq_text = <<K, " ", N, ".">>
            /\ name_text = <<N>>

\* C12, the case that breaks it: the declaration "Example Foo." is
\* sanitized to itself, and the proposition is "unknown_proposition"
C12_ExampleHasNoName ==
    /\ passes = 1
    /\ raw_text = FencedDeclaration("Example", "Foo")
    /\ coq_text = <<"Example", " ", "Foo", ".">>
    /\ name_text = <<"unknown_proposition">>

----------------------------------------------------------------------------
(* Properties of the shared ledger, checked under LedgerSpec *)

\* the invocations of record_to_blockchain that appended a record
Appended == {i \in 1..Len(commits) : commits[i].appended}

\* C13: two commits of the same artifact text under different declaration
\* names give records whose digests differ
C13_NameSeparatesDigests ==
    \A i, j \in Appended :
        (/\ commits[i].proof_content = commits[j].proof_content
         /\ commits[i].record.proposition # commits[j].record.proposition)
        => commits[i].record.hash # commits[j].record.hash

\* C13, its case: the text "x." was committed under the names "proof" and
\* "other"
C13_SameTextTwoNames ==
    \E i, j \in Appended :
        /\ commits[i].proof_content = <<"x", ".", LF>>
        /\ commits[j].proof_content = <<"x", ".", LF>>
        /\ commits[i].record.proposition = <<"proof">>
        /\ commits[j].record.proposition = <<"other">>

\* C14: a verification that passed gives one record at most, however often
\* record_to_blockchain is invoked after it
C14_OneRecordPerVerification ==
    \A i, j \in Appended :
        (commits[i].by = commits[j].by /\ commits[i].run = commits[j].run)
        => i = j

\* C14, the case that breaks it: dashboard c1 verified one artifact, once,
\* and its ledger holds two records of that artifact
C14_RecordedTwice ==
    /\ controllers["c1"].runs = 1
    /\ Len(controllers["c1"].blockchain) = 2
    /\ controllers["c1"].blockchain[1].proof_file =
           controllers["c1"].blockchain[2].proof_file
    /\ controllers["c1"].blockchain[1].hash =
           controllers["c1"].blockchain[2].hash
    /\ ledger_file.records = controllers["c1"].blockchain
    /\ \A i \in 1..Len(commits) : commits[i].by = "c1" /\ commits[i].run = 1


----------------------------------------------------------------------------
(* Properties of the ledger of one dashboard, checked under Spec *)

\* seq is the beginning of longer, record by record
IsPrefix(seq, longer) ==
    /\ Len(seq) <= Len(longer)
    /\ SubSeq(longer, 1, Len(seq)) = seq

\* C15: the ledger is append-only: every operation of the dashboard and of
\* the audits leaves the in-memory ledger and the ledger file with what
\* they held before as their beginning
C15_LedgerAppendOnly ==
    [][/\ IsPrefix(blockchain, blockchain')
       /\ IsPrefix(blockchain_file.records, blockchain_file'.records)
       /\ blockchain_file.exists => blockchain_file'.exists]_vars

\* C15, its case: a second record was committed after the first and after a
\* file was changed, and an audit ran on the two
C15_TwoRecordsAudited ==
    /\ Len(blockchain) = 2
    /\ blockchain_file.records = blockchain
    /\ blockchain[1].proof_file # blockchain[2].proof_file
    /\ tampers = 1
    /\ audit_out.tool = "audit.py"
    /\ Len(audit_out.verdicts) = 2


----------------------------------------------------------------------------
(* Properties of the shared ledger, checked under LedgerSpec (continued) *)

\* the latest invocation of record_to_blockchain
LastCommit == commits[Len(commits)]

\* C16: an invocation of record_to_blockchain that passes the guard and
\* cannot read the artifact file shows "Failed to record" and leaves the
\* in-memory ledger of its dashboard and the ledger file as they were
C16_UnreadableArtifactNotCommitted ==
    [][\A c \in Controllers :
          (/\ Len(commits') = Len(commits) + 1
           /\ commits'[Len(commits')].by = c
           /\ GuardOf(controllers[c])
           /\ storage[controllers[c].current_proof_file].st # "file")
          => /\ controllers'[c].dialog = "Failed to record"
             /\ ~commits'[Len(commits')].appended
             /\ controllers'[c].blockchain = controllers[c].blockchain
             /\ ledger_file' = ledger_file]_vars

\* C16, its case: after a commit, the artifact of a dashboard with a passed
\* verification was removed or locked and record_to_blockchain was invoked
C16_CommitOfLostArtifact ==
    /\ Len(commits) = 2
    /\ commits[1].appended
    /\ LastCommit.guard
    /\ LastCommit.file.st # "file"
    /\ LastCommit.dialog = "Failed to record"
    /\ Len(ledger_file.records) = 1


\* the verdict audit.py owes a record, from the file that was there
Authentic(record, f) ==
    /\ f.st = "file"
    /\ Digest(ReadText(f.bytes), record.proposition) = record.hash

\* C17: an audit of n records gives n verdicts, record by record in the
\* order of the ledger: a record whose artifact is missing or unreadable
\* fails, and every record after it still gets its own verdict
C17_OneVerdictPerRecord ==
    (report.tool = "audit.py" /\ ~report.raised /\ ~report.no_records) =>
        /\ Len(report.verdicts) = Len(report.records)
        /\ report.pass_count + report.fail_count = Len(report.records)
        /\ \A i \in 1..Len(report.records) :
              /\ i \in DOMAIN report.verdicts
              /\ report.seen[i].st # "file" =>
                     report.verdicts[i].status = "FAIL"
              /\ Authentic(report.records[i], report.seen[i]) <=>
                     report.verdicts[i].status = "PASS"

\* C17, its case: the artifact of the first of two records is missing or
\* unreadable, and the second record is found authentic
C17_SecondRecordAuditedAfterMissing ==
    /\ report.tool = "audit.py"
    /\ Len(report.records) = 2
    /\ report.seen[1].st # "file"
    /\ report.verdicts[1].status = "FAIL"
    /\ report.verdicts[2].status = "PASS"
    /\ report.pass_count = 1
    /\ report.fail_count = 1


\* the ledger file does not hold a list of records, or cannot be opened
Corrupt(file) == file.exists /\ file.damage # "none"

\* C18: an audit of a corrupt or unreadable ledger file ends in an error;
\* it prints neither "No blockchain records found" nor that all proofs are
\* authentic
C18_CorruptLedgerFailsAudit ==
    (report.tool = "audit.py" /\ Corrupt(report.opened)) =>
        /\ report.raised
        /\ ~report.no_records
        /\ ~report.all_authentic

\* C18, the case that breaks it: the ledger file held a record and was
\* overwritten with the JSON text null (or {}); audit.py prints "No
\* blockchain records found" and ends without an error
C18_NullLedgerReportedEmpty ==
    /\ report.tool = "audit.py"
    /\ report.opened.exists
    /\ report.opened.damage = "falsy"
    /\ Len(report.opened.records) >= 1
    /\ report.no_records
    /\ ~report.raised


\* the records audited by a run of audit.py, each with the file that was
\* there and the verdict it got
Audits(r) ==
    {[record |-> r.records[i], seen |-> r.seen[i], verdict |-> r.verdicts[i]] :
        i \in DOMAIN r.verdicts \cap DOMAIN r.records}

\* C19: the verdict of a record follows from its stored digest, its stored
\* name and the content of its artifact file: two audited records that agree
\* in these three get the same verdict, wherever they stand in the ledger
\* and whatever records were appended, removed or moved between two audits
C19_VerdictOfRecordAlone ==
    \A a, b \in Audits(report) \cup Audits(prev_report) :
        (/\ a.record.hash = b.record.hash
         /\ a.record.proposition = b.record.proposition
         /\ a.seen = b.seen)
        => a.verdict = b.verdict

\* C19, its case: a record was audited as the second of two, after a record
\* that failed; the failed record was removed from the ledger file, and the
\* next audit gave the record the same verdict as the first of one
C19_SameVerdictAfterRemoval ==
    /\ damages = 2
    /\ Len(prev_report.records) = 2
    /\ prev_report.verdicts[1].status = "FAIL"
    /\ prev_report.verdicts[2].status = "PASS"
    /\ Len(report.records) = 1
    /\ report.records[1] = prev_report.records[2]
    /\ report.seen[1] = prev_report.seen[2]
    /\ report.verdicts[1].status = "PASS"


\* C20: while nobody outside the program changes the ledger file, every
\* record that a dashboard committed is in the file, whichever dashboard
\* committed last
C20_NoCommittedRecordLost ==
    damages = 0 =>
        \A i \in Appended :
            \E k \in 1..Len(ledger_file.records) :
                ledger_file.records[k] = commits[i].record

\* C20, the case that breaks it: two dashboards were opened on the same
\* (empty) ledger, each committed one record, and the file holds only the
\* record of the one that committed last
C20_SecondSaveDropsFirstRecord ==
    /\ damages = 0
    /\ Len(commits) = 2
    /\ commits[1].appended /\ commits[1].by = "c1"
    /\ commits[2].appended /\ commits[2].by = "c2"
    /\ controllers["c1"].blockchain = <<commits[1].record>>
    /\ controllers["c2"].blockchain = <<commits[2].record>>
    /\ ledger_file.records = <<commits[2].record>>


----------------------------------------------------------------------------
(* Properties of the sanitizer, checked under SanSpec (continued) *)

\* the positions of the fences of a text
Fences(text) == {i \in 1..Len(text) : text[i] = FENCE}

\* the inner content of the first delimited block of a text, without the
\* language tag that follows the opening fence; the text when it has no block
FirstBlock(text) ==
    IF Cardinality(Fences(text)) < 2 THEN text
    ELSE LET open == CHOOSE i \in Fences(text) : \A j \in Fences(text) : i <= j
             close == CHOOSE i \in Fences(text) \ {open} :
                          \A j \in Fences(text) \ {open} : i <= j
             from == IF open + 1 < close /\ IsWord(text[open + 1])
                     THEN open + 2 ELSE open + 1
         IN  Strip(SubSeq(text, from, close - 1))

\* C30: the text handed to the passes after fence stripping is the inner
\* content of the first block of the response, without its language tag,
\* and the whole response when it has no block
C30_FirstBlockExtracted ==
    passes >= 1 => ExtractCode(raw_text) = FirstBlock(raw_text)

\* C30, a case that breaks it: the block of the response carries the tag
\* python, and the tag is handed on as the first line of the code
C30_TagKept ==
    /\ passes = 1
    /\ raw_text = JoinLines(<< <<FENCE, "python">>, <<"Theorem", " ", "A", ".">>,
                               <<FENCE>> >>)
    /\ ExtractCode(raw_text) =
           JoinLines(<< <<"python">>, <<"Theorem", " ", "A", ".">> >>)


----------------------------------------------------------------------------
(* Properties of a run, checked under RunSpec (continued) *)

\* C28: a run of execute_pipeline whose credential is present and whose
\* call_llm returned has, when it ends, written the artifact file and
\* invoked the verifier on it, and ended in a verification outcome
C28_PipelineProceedsToVerification ==
    (/\ run_kind = "execute_pipeline"
     /\ api_key # ""
     /\ llm_status = "returned"
     /\ pc = "done")
        => /\ files_written = 1
           /\ verifier_calls = 1
           /\ result.status \in {"PASS", "FAIL", "TIMEOUT", "NOT_FOUND", "ERROR"}

\* C28, the case that breaks it: call_llm returned its three values, the
\* assignment to two names raised, and the run ended as a generation error
\* with no file written and no verifier invoked
C28_PipelineStopsAtUnpacking ==
    /\ run_kind = "execute_pipeline"
    /\ llm_status = "returned"
    /\ pc = "done"
    /\ result = Result("error", FALSE, "ValueError")
    /\ files_written = 0
    /\ verifier_calls = 0


\* C22: a run invokes the verifier at most once, on the one file it wrote:
\* after a failed, timed-out or errored verification the run has ended
C22_VerifierInvokedOnce ==
    /\ verifier_calls <= 1
    /\ files_written <= 1
    /\ (verifier_calls = 1 /\ outcome # NoOutcome) => pc \in {"classify", "done"}

\* C22, its case: a run of the benchmark has ended after its one
\* verification timed out
C22_EndedAfterTimeout ==
    /\ run_kind = "run_single_test"
    /\ pc = "done"
    /\ outcome.kind = "timeout"
    /\ verifier_calls = 1
    /\ ~result.passed


\* what an invocation of the verifier came to, from what the verifier did:
\* it passed when the checker exited with status 0 and wrote no failure
\* marker, and the checker rejected when it exited otherwise
OutcomeClass(o) ==
    CASE o.kind = "not_found" -> "NOT_FOUND"
      [] o.kind = "timeout" -> "TIMEOUT"
      [] o.kind = "os_error" -> "ERROR"
      [] OTHER -> IF CheckerAccepted(o) THEN "PASS" ELSE "FAIL"

\* C29: a verifier invocation of the dashboard ends in one of tool not
\* found, timeout, checker rejected, process error and passed, the one that
\* happened; verification_passed is true in the passed outcome and false in
\* the four others
C29_OneOutcomePerInvocation ==
    (/\ run_kind \in {"execute_pipeline", "load_existing_proof"}
     /\ pc = "done"
     /\ verifier_calls = 1)
        => /\ result.status \in {"NOT_FOUND", "TIMEOUT", "FAIL", "ERROR", "PASS"}
           /\ result.status = OutcomeClass(outcome)
           /\ result.passed <=> OutcomeClass(outcome) = "PASS"

\* C29, the case that breaks it: the checker exited with status 0 after
\* writing its failure marker; the dashboard took the PASS branch and set
\* verification_passed
C29_RejectedTakenAsPassed ==
    /\ run_kind = "load_existing_proof"
    /\ pc = "done"
    /\ verifier_calls = 1
    /\ outcome = Exited(0, TRUE)
    /\ OutcomeClass(outcome) = "FAIL"
    /\ result.status = "PASS"
    /\ result.passed


\* C24: when every candidate was tried without an answer, the exception that
\* call_llm raises to its caller holds every model of attempted_models and
\* the words of last_error
C24_ExhaustionCarriesAttempts ==
    llm_status = "exhausted"
        => /\ \A i \in 1..Len(attempted_models) :
                 Contains(llm_raised, attempted_models[i])
           /\ \A i \in 1..Len(last_error) : Contains(llm_raised, last_error[i])

\* C24, the case that breaks it: all nine candidates were attempted, the
\* last one failed with an error, and the exception raised is the fixed
\* sentence about available models
C24_ExhaustedWithFixedText ==
    /\ llm_status = "exhausted"
    /\ attempted_models = ModelsToTry
    /\ last_error # NoError
    /\ llm_raised = <<"Error in call_llm:", "Claude API error:",
                      "No available Claude models found. Check your API key permissions.">>


\* a model name of gemini without the prefix "models/", which names the
\* same model
BareModel(m) == IF m = "models/gemini-2.0-flash" THEN "gemini-2.0-flash" ELSE m

\* C26: once call_llm has returned in run_single_test, the model recorded
\* in the result is the model whose response was accepted, the last one
\* that was asked
C26_RecordedModelIsUsedModel ==
    (/\ run_kind = "run_single_test"
     /\ llm_status = "returned"
     /\ pc # "generating")
        => /\ llm_response.model = calls[Len(calls)]
           /\ BareModel(test_result.model) = BareModel(llm_response.model)

\* C26, the case that breaks it: the first candidate of provider claude
\* failed, the second one answered, the artifact passed the verifier, and
\* the result names the requested model
C26_FallbackRecordedAsRequested ==
    /\ run_kind = "run_single_test"
    /\ provider = "claude"
    /\ pc = "done"
    /\ test_result.success
    /\ calls = <<"claude-3-5-sonnet-20241022", "claude-3-5-sonnet-latest">>
    /\ llm_response.model = "claude-3-5-sonnet-latest"
    /\ test_result.model = "claude-3-5-sonnet-20241022"


\* the counters of a result or of token_info are those of this usage, or
\* all zero when the response carried none
CountersOf(r, usage) ==
    /\ r.input_tokens = IF usage.present THEN usage.input ELSE 0
    /\ r.output_tokens = IF usage.present THEN usage.output ELSE 0
    /\ r.total_tokens = IF usage.present THEN usage.total ELSE 0

\* C25: when call_llm has returned, token_info holds the usage counters of
\* the response that was accepted, or zeros when that response carried
\* none, whatever the attempts before it carried; run_single_test copies
\* these counters into its result
C25_CountersOfSuccessfulResponse ==
    llm_status = "returned"
        => /\ CountersOf(token_info, llm_response.usage)
           /\ (run_kind = "run_single_test" /\ pc # "generating")
                 => CountersOf(test_result, llm_response.usage)

\* C25, its case: two attempts of gemini failed, the third response was
\* accepted and carried no usage counters, and the result of
\* run_single_test has counters that are all zero
C25_ZeroCountersAfterRetries ==
    /\ run_kind = "run_single_test"
    /\ provider = "gemini"
    /\ pc = "done"
    /\ llm_status = "returned"
    /\ Len(calls) = GeminiMaxRetries
    /\ ~llm_response.usage.present
    /\ token_info = ZeroTokens
    /\ test_result.total_tokens = 0


\* C27: a result of run_single_test that says success = false after the
\* run has ended holds a text in its error field, and the text is not empty
C27_FailureCarriesDiagnostic ==
    (run_kind = "run_single_test" /\ pc = "done" /\ ~test_result.success)
        => ~test_result.error_is_none /\ test_result.error # <<>>

\* C27, the case that breaks it: the verifier exited with a status other
\* than 0 and wrote nothing to its standard error; the error field holds
\* the empty text
C27_SilentVerifierFailure ==
    /\ run_kind = "run_single_test"
    /\ pc = "done"
    /\ outcome = Exited(1, FALSE)
    /\ stderr_text = <<>>
    /\ ~test_result.success
    /\ ~test_result.error_is_none
    /\ test_result.error = <<>>


\* the tagged outcome of a run that has ended: the status the dashboard
\* shows, or the field success of the result of run_single_test, the one
\* field of that result that classifies the run
TaggedOutcome(kind, r, t) ==
    IF kind = "run_single_test"
    THEN (IF t.success THEN "success" ELSE "no success")
    ELSE r.status

\* the ways in which the verifier stage itself fails
StageErrors ==
    {[kind |-> k, returncode |-> 1, marker |-> FALSE] :
        k \in {"not_found", "timeout", "os_error"}}

\* the tagged outcomes of the runs of this handler in which a stage failed:
\* an exception before the verifier was reached, or a failure of the
\* verifier stage
FailedOutcomes(kind) ==
    {TaggedOutcome(kind, Result("error", FALSE, "exception"),
                   WithError(NewTestResult(requested_model), <<"exception">>))}
    \cup {TaggedOutcome(kind, DashboardResult(o),
                        VerifiedTestResult(NewTestResult(requested_model), o,
                                           <<>>)) : o \in StageErrors}

\* the run went through every stage and the verifier said no
Rejected ==
    /\ pc = "done"
    /\ verifier_calls = 1
    /\ outcome.kind = "exited"
    /\ ~CheckerAccepted(outcome)

\* C21: the tagged outcome of a run that was rejected by the verifier is
\* not a tagged outcome that the same handler gives to a run in which a
\* stage failed
C21_RejectedDistinctFromFailed ==
    (/\ run_kind \in {"execute_pipeline", "load_existing_proof",
                      "run_single_test"}
     /\ Rejected)
        => TaggedOutcome(run_kind, result, test_result)
              \notin FailedOutcomes(run_kind)

\* C21, the case that breaks it: run_single_test ended after the verifier
\* rejected the artifact with a message; its result says success = false
\* with a text, which is what it says after a timeout of the verifier
C21_RejectedLooksFailed ==
    /\ run_kind = "run_single_test"
    /\ Rejected
    /\ outcome = Exited(1, TRUE)
    /\ ~test_result.success
    /\ test_result.error = <<"Error:">>
    /\ ~VerifiedTestResult(NewTestResult(requested_model),
                           [kind |-> "timeout", returncode |-> 1,
                            marker |-> FALSE], <<>>).success


(* Properties of the shared ledger, checked under LedgerSpec (continued) *)

\* C23: two records that were committed for artifacts with different text
\* carry different declaration names, also when the name is the default one
C23_DistinctArtifactsDistinctNames ==
    \A i, j \in Appended :
        commits[i].proof_content # commits[j].proof_content
        => commits[i].record.proposition # commits[j].record.proposition

\* C23, the case that breaks it: two dashboards loaded two files of the
\* same name with different text, neither holds a declaration, both were
\* verified and recorded, nothing was changed from outside, and the two
\* records carry the file stem as their name
C23_TwoTextsOneName ==
    /\ damages = 0
    /\ Len(commits) = 2
    /\ Appended = {1, 2}
    /\ commits[1].by # commits[2].by
    /\ commits[1].guard /\ commits[2].guard
    /\ commits[1].proof_content # commits[2].proof_content
    /\ commits[1].record.hash # commits[2].record.hash
    /\ commits[1].record.proposition = <<"proof">>
    /\ commits[2].record.proposition = <<"proof">>


----------------------------------------------------------------------------
(* Properties of the sanitizer, checked under SanSpec (trimming, rewriting, *)
(* comment repair and the inferred name)                                    *)

\* the line begins with a word of coq_keywords or with the comment opener
BeginsDeclaration(line) ==
    /\ Strip(line) # <<>>
    /\ Head(Strip(line)) \in CoqKeywords

\* the index of the first line that begins so, or 0
FirstDeclaration(lines) ==
    LET hits == {i \in 1..Len(lines) : BeginsDeclaration(lines[i])}
    IN  IF hits = {} THEN 0 ELSE CHOOSE i \in hits : \A j \in hits : i <= j

\* C31: when some line of the code begins with a declaration keyword or the
\* comment opener, the output of _clean_coq_code starts with the first such
\* line (in its rewritten form) and holds no more lines than that line and
\* those after it; a line of prose is not taken for it
C31_StartsAtFirstDeclaration ==
    passes >= 1 =>
        LET lines == SplitLines(ExtractCode(raw_text))
            k == FirstDeclaration(lines)
            out == SplitLines(CleanCoqCode(ExtractCode(raw_text)))
        IN  k # 0 => /\ RStrip(out[1]) = Strip(FixLine(lines[k]))
                     /\ Len(out) <= Len(lines) - k + 1

\* C31, a case that breaks it: the prose line "Importantly" starts with the
\* letters of the keyword Import, and the output starts with it
C31_ProseTakenForDeclaration ==
    /\ passes = 1
    /\ raw_text = JoinLines(<< <<"Importantly">>, <<"Theorem", " ", "A", ".">> >>)
    /\ FirstDeclaration(SplitLines(ExtractCode(raw_text))) = 2
    /\ CleanCoqCode(ExtractCode(raw_text)) = raw_text
    /\ coq_text = raw_text


\* r'From\s+Coq\s+Require\s+Import' matches in text at position i
FromCoqMatch(text, i) ==
    LET j == AfterWords(text, i, <<"From", "Coq", "Require">>)
    IN  j # 0 /\ j <= Len(text) /\ text[j] = "Import"

\* C32: in the code that call_llm returns neither substitution rule matches
\* at any position: it holds no "From Coq Require Import" and no
\* "Require Import Coq.<path>."
C32_RewritingReachesFixedPoint ==
    passes >= 1 =>
        \A i \in 1..Len(coq_text) :
            ~RequireMatch(coq_text, i).ok /\ ~FromCoqMatch(coq_text, i)

\* C32, the case that breaks it: the path of an import inside a line starts
\* with "Coq." itself; the one pass of the substitution removes the first
\* "Coq." and leaves "Require Import Coq.Arith.", which the rule matches
C32_RuleMatchesItsOutput ==
    /\ passes = 1
    /\ raw_text = <<"x", " ", "Require", " ", "Import", " ",
                    "Coq", ".", "Coq", ".", "Arith", ".">>
    /\ coq_text = <<"x", " ", "From", " ", "Stdlib", " ", "Require", " ",
                    "Import", " ", "Coq", ".", "Arith", ".">>
    /\ RequireMatch(coq_text, 7).ok


\* the code as it stands before the comment repair
BeforeRepair(text) ==
    RewriteFromCoq(RewriteRequire(CleanCoqCode(ExtractCode(text))))

\* the number of comment openers of a text minus the number of its closers
\* (0 when there are no more openers than closers)
Excess(text) ==
    LET open == CountOf(text, {OPENER, OPENCLOSE})
        close == CountOf(text, {CLOSER, OPENCLOSE})
    IN  IF open > close THEN open - close ELSE 0

\* C33: the returned code is the code before the repair, followed, when
\* that code has k > 0 more openers than closers, by a line of exactly k
\* closers and by nothing when it has not; the returned code never has more
\* openers than closers
C33_MissingClosersAppended ==
    passes >= 1 =>
        LET before == BeforeRepair(prev_text)
            k == Excess(before)
            added == SubSeq(coq_text, Len(before) + 1, Len(coq_text))
        IN  /\ Len(coq_text) >= Len(before)
            /\ SubSeq(coq_text, 1, Len(before)) = before
            /\ added = IF k = 0 THEN <<>>
                       ELSE <<LF>> \o [i \in 1..k |-> CLOSER]
            /\ Excess(coq_text) = 0

\* C33, its case: the response opens two comments and closes none, and two
\* closers were appended
C33_TwoClosersAppended ==
    /\ passes = 1
    /\ raw_text = JoinLines(<< <<OPENER, " ", "x">>, <<OPENER, " ", "x">> >>)
    /\ Excess(BeforeRepair(raw_text)) = 2
    /\ coq_text = raw_text \o <<LF, CLOSER, CLOSER>>


\* the words of coq_keywords that start a declaration with a name
NamingKeywords == CoqKeywords \ {"Require", "Import", "Open", "From", OPENER}

\* C34: the proposition that call_llm returns is the identifier after the
\* first declaration keyword of the returned code, whichever keyword of
\* coq_keywords it is, and the default name when no keyword is followed by
\* an identifier
C34_NameOfFirstDeclaration ==
    passes >= 1 =>
        name_text = IF SearchDeclaration(coq_text, NamingKeywords) # <<>>
                    THEN SearchDeclaration(coq_text, NamingKeywords)
                    ELSE <<"unknown_proposition">>

\* C34, a case that breaks it: the returned code is "Fixpoint Foo." and
\* the proposition is the default name
C34_FixpointHasNoName ==
    /\ passes = 1
    /\ raw_text = FencedDeclaration("Fixpoint", "Foo")
    /\ coq_text = <<"Fixpoint", " ", "Foo", ".">>
    /\ SearchDeclaration(coq_text, NamingKeywords) = <<"Foo">>
    /\ name_text = <<"unknown_proposition">>


----------------------------------------------------------------------------
(* Properties of a run, checked under RunSpec (the retry loop of gemini) *)

----------------------------------------------------------------------------
(* Properties of the shared ledger, checked under LedgerSpec (the use-case *)
(* label)                                                                  *)

\* C39: a record that was appended for a proof brought in by
\* load_existing_proof, whose file is pco_storage/loaded_<stem>_<time>.v,
\* carries the use case "loaded_proof"
C39_LoadedProofLabelled ==
    \A i \in Appended :
        commits[i].record.proof_file.prefix = "loaded_"
        => commits[i].record.use_case = "loaded_proof"

\* C39, the case that breaks it: the record of a loaded proof carries the
\* use case that is selected in the dashboard
C39_LoadedProofLabelledAsSelected ==
    /\ Len(commits) >= 1
    /\ commits[1].appended
    /\ commits[1].run = 1
    /\ commits[1].record.proof_file = StoredPath("proof", 0)
    /\ ~PathStartsWith(commits[1].record.proof_file, "loaded_")
    /\ commits[1].record.use_case = "tax_compliance"


----------------------------------------------------------------------------
(* Properties of the stored artifacts, checked under Spec (the file of a   *)
(* committed record)                                                       *)

\* C35: a later run of the dashboard never overwrites the file that a
\* committed record refers to: with every step other than an edit from
\* outside, the file at the path of each record keeps its content, also when
\* the later run starts in the same clock second
C35_CommittedFileNotOverwritten ==
    [][tampers' = tampers
       => \A i \in 1..Len(blockchain) :
              disk'[blockchain[i].proof_file] = disk[blockchain[i].proof_file]]_vars

\* C35, the case that breaks it: with no edit from outside, a second proof
\* with the same file stem was loaded in the second of the first, and the file
\* of the committed record now holds the second proof
C35_SecondLoadReplacedCommittedFile ==
    /\ tampers = 0
    /\ Len(blockchain) = 1
    /\ last_run.op = "load_existing_proof"
    /\ last_run.path = blockchain[1].proof_file
    /\ blockchain[1].proof_file = StoredPath("proof", now)
    /\ disk[blockchain[1].proof_file].st = "file"
    /\ disk[blockchain[1].proof_file].bytes # commit_log[1].bytes


\* C36: the digest of a record is the digest of the content that the verifier
\* was run on and accepted: a file that was changed between the verification
\* and record_to_blockchain gives no record of the changed content
C36_DigestOfCheckedContent ==
    \A i \in 1..Len(commit_log) :
        blockchain[i].hash = Digest(ReadText(commit_log[i].run.checked),
                                    commit_log[i].run.proposition)

\* C36, the case that breaks it: the file was edited after its verification
\* passed, record_to_blockchain appended a record, and the digest of the
\* record is that of the edited text
C36_EditedContentRecorded ==
    /\ tampers = 1
    /\ Len(blockchain) = 1
    /\ commit_log[1].verification_passed
    /\ CheckerAccepted(commit_log[1].run.outcome)
    /\ commit_log[1].run.path = blockchain[1].proof_file
    /\ commit_log[1].bytes = commit_log[1].run.checked \o <<"x">>
    /\ blockchain[1].hash = Digest(ReadText(commit_log[1].bytes),
                                   blockchain[1].proposition)
    /\ blockchain[1].hash # Digest(ReadText(commit_log[1].run.checked),
                                   blockchain[1].proposition)


----------------------------------------------------------------------------
(* Properties of the linked document, checked under DocSpec *)

\* C37: a record carries a document hash only if its artifact was generated
\* by execute_pipeline from a prompt that held that document; a proof loaded
\* from a file, and a document loaded after the artifact was produced, give
\* no document hash
C37_DocumentOnlyIfPrompted ==
    \A i \in 1..Len(blockchain) :
        blockchain[i].document_hash # "absent"
        => /\ commit_log[i].run.op = "execute_pipeline"
           /\ commit_log[i].run.document # "None"
           /\ blockchain[i].document_hash =
                  DocumentHash(commit_log[i].run.document)

\* C37, the case that breaks it: a proof was loaded from a file and verified
\* while a tax return was loaded, and its record carries the hash of the tax
\* return
C37_LoadedProofLinkedToDocument ==
    /\ loaded_document = "tax_return"
    /\ Len(blockchain) = 1
    /\ commit_log[1].run.op = "load_existing_proof"
    /\ commit_log[1].run.document = "None"
    /\ blockchain[1].proof_file = StoredPath("proof", 0)
    /\ blockchain[1].document_hash = DocumentHash("tax_return")

=============================================================================
